---------------------------- MODULE Spec2Model ----------------------------
(***************************************************************************)
(* A model of the gridwar server core (src/server.js): the room registry,  *)
(* the round state machine, bullet reload, and the tick-driven projectile  *)
(* simulation with its collision resolver.                                 *)
(*                                                                         *)
(* Every socket handler and the tick callback run to completion (Node's    *)
(* single-threaded event loop), so each is one atomic action.              *)
(*                                                                         *)
(* Time.  The code reads a stored timestamp only through                   *)
(* Date.now() - lastReloadTime.  The model keeps the clock relative: Now   *)
(* is a fixed reference instant and a tick, instead of advancing Now by    *)
(* PROJECTILE_STEP_MS, moves every stored timestamp back by that amount.   *)
(* A timestamp older than MAX_BULLETS * BULLET_RELOAD_MS is kept at that   *)
(* age: any such age refills the magazine completely.                      *)
(*                                                                         *)
(* Timers.  setTimeout is modelled by a set of pending callbacks; a        *)
(* pending callback may fire at any later step unless it was cleared (the  *)
(* length of the delay is not modelled).                                   *)
(*                                                                         *)
(* Emitted events are not part of the state.                               *)
(***************************************************************************)
EXTENDS Integers, Sequences, FiniteSets, TLC

\* ------------------------------------------------------------------------
\* Program constants
\* ------------------------------------------------------------------------
GRID_W == 40
GRID_H == 18
PROJECTILE_STEP_MS == 140
BULLET_RELOAD_MS == 1000
MAX_BULLETS == 3
FULL_HP == 5

Cell(cx, cy) == [x |-> cx, y |-> cy]

WALLS ==
    { Cell(19, 8), Cell(20, 8), Cell(19, 9), Cell(20, 9),
      Cell(10, 4), Cell(11, 4), Cell(12, 4),
      Cell(27, 13), Cell(28, 13), Cell(29, 13) }

REFLECT_WALLS == { Cell(5, 5), Cell(34, 5), Cell(5, 12), Cell(34, 12) }

SPIKES == { Cell(8, 7), Cell(31, 10), Cell(16, 12) }

CACTI_LAYOUT == << Cell(14, 6), Cell(25, 6), Cell(20, 3) >>

COLORS == << "#1e90ff", "#e74c3c", "#2ecc71", "#9b59b6",
             "#f1c40f", "#e67e22", "#16a085", "#34495e" >>

\* ------------------------------------------------------------------------
\* Bounds of the model and the inputs the environment offers
\* ------------------------------------------------------------------------
\* Connections that ever exist.  A socket id is never reused.
Sockets == { "s1", "s2", "s3", "s4", "s5", "s6", "s7", "s8", "s9" }
\* Room keys a join may carry ("" stands for a missing or blank key).
RoomKeyInputs == { "", "lobby" }
\* Directions a move intent may carry ("jump" is an unknown direction).
DirectionInputs == { "up", "down", "left", "right", "jump" }

\* The duel: two connections around the spike at (16, 12).  The random spawn
\* draws come from SpawnArea (legal or not: the code decides), and move
\* intents steer a player onto the cells of WalkArea only.  One client sends
\* the shoot intents and the other the move intents.
Duelists == { "s1", "s2" }
Shooters == { "s1" }
Walkers == { "s2" }
SpawnArea == { Cell(16, 10), Cell(16, 11), Cell(15, 12), Cell(16, 12) }
WalkArea == { Cell(15, 12), Cell(16, 12) }
\* Rounds a host may start, and shots that may be fired, in one behaviour.
MaxRounds == 2
MaxShots == 2

\* The reflect run: the same two connections in the column of the reflect
\* wall at (5, 5), spawned above it, below it or at the bottom edge; a player
\* below may step up once, which turns it towards the wall.  Both clients
\* shoot; one of them sends the move intents.
ReflectSpawn == { Cell(5, 1), Cell(5, 8), Cell(5, 9) }
ReflectWalk == { Cell(5, 7) }
ReflectShots == 3

\* The cactus run: the same two connections spawned above and below the
\* cactus at (14, 6), whose burst sets off the cactus at (25, 6), or above
\* the solid wall at (12, 4); the player below may step up once.
CactusSpawn == { Cell(14, 4), Cell(14, 9), Cell(12, 2) }
CactusWalk == { Cell(14, 8) }
CactusShots == 2

\* The crossfire run: the same two connections, spawned two cells above the
\* spike at (16, 12) or beside it.  Both clients shoot; one of them walks,
\* between the spike and the row of the other player.
CrossfireSpawn == { Cell(16, 10), Cell(15, 11), Cell(15, 12) }
CrossfireWalk ==
    { Cell(13, 10), Cell(14, 10), Cell(15, 10), Cell(15, 11), Cell(15, 12),
      Cell(16, 12) }
CrossfireRounds == 1
CrossfireShots == 2

\* The last stand: the crossfire run with both clients walking, one in the
\* column of the spike and the other beside it, so that both can wear their
\* health down to 1.
LastStandWalk ==
    [ s \in Duelists |->
        IF s = "s1"
        THEN { Cell(16, 9), Cell(16, 10), Cell(16, 11), Cell(16, 12) }
        ELSE { Cell(15, 12), Cell(16, 12) } ]
LastStandRounds == 1
LastStandShots == 2

\* The corridor run: the same two connections, one spawned in column 5
\* between the reflect walls at (5, 5) and (5, 12), where it may step out of
\* the column to the left, the other two columns to the right.  Both shoot.
CorridorSpawn == { Cell(5, 8), Cell(7, 8), Cell(7, 9) }
CorridorWalk == { Cell(4, 8) }
CorridorRounds == 1
CorridorShots == 2

\* The connections of the lobby and trio runs.
Visitors == { "s1", "s2", "s3" }

\* The lobby run: three connections and two rooms ("" is the lobby).  A
\* connection may join again and again, under the same key or the other one;
\* the clients send no move and no shoot intents.  The spawn draws come from
\* four cells of row 16.
LobbyKeys == { "", "arena" }
\* The connections that join more than once.
Rovers == { "s1" }
LobbySpawn == { Cell(1, 16), Cell(3, 16), Cell(5, 16), Cell(7, 16) }

\* The trio: all three connections in one room around the spike at (16, 12),
\* each joining once, with a fourth spawn cell out of the way.  A round goes
\* on after one of three players has died.
TrioSpawn == SpawnArea \cup { Cell(20, 16) }
TrioRounds == 1
TrioShots == 3

\* The connections of the arena run.
Quartet == { "s1", "s2", "s3", "s4" }

\* The arenas: two rooms played at the same time, two connections each.  The
\* spawn cells lie above the cactus at (14, 6): a shot from (14, 3) hits a
\* player on (14, 4) at the muzzle, a shot from (14, 4) sets off the cactus,
\* a shot from (15, 3) flies free.  The first to join a room is spawned on
\* (14, 3) and the second on (15, 3); the round moves them to (14, 4) and
\* (14, 3).  One client of each room shoots.
ArenaKey == [ s \in Sockets |-> IF s \in { "s1", "s2" } THEN "" ELSE "arena" ]
Gunners == { "s1", "s3" }
ArenaSpawn == { Cell(14, 3), Cell(14, 4), Cell(15, 3) }
ArenaShots == 3

\* The crowd: nine connections, one more than the palette has colours, come
\* to the lobby one after the other in the order of Crowd; the rovers may
\* join again and the leavers disconnect at any time.  No round is started.
\* The spawn draws come from ten cells of row 16.
Crowd == << "s1", "s2", "s3", "s4", "s5", "s6", "s7", "s8", "s9" >>
Leavers == { "s2", "s9" }
CrowdSpawn == { Cell(x, 16) : x \in 1..10 }

Null == "null"
\* room.countdownTimeout / room.restartTimeout when no timer is held (null).
NoTimer == 0
\* Date.now(), the reference instant of the relative clock.
Now == 0
MaxAge == MAX_BULLETS * BULLET_RELOAD_MS

Min(a, b) == IF a < b THEN a ELSE b
Max(a, b) == IF a > b THEN a ELSE b

\* ------------------------------------------------------------------------
\* Terrain queries
\* ------------------------------------------------------------------------
\* A terrain without solid walls: a variant used to test the strength of
\* the properties.
isWallNowhere(x, y) == FALSE

isWall(x, y) == Cell(x, y) \in WALLS

isReflectWall(x, y) == Cell(x, y) \in REFLECT_WALLS

isSpike(x, y) == Cell(x, y) \in SPIKES

\* A grid without edges: a variant used to test the strength of the
\* properties.
inGridEverywhere(x, y) == TRUE

inGrid(x, y) == x >= 0 /\ x < GRID_W /\ y >= 0 /\ y < GRID_H

VARIABLES
    rooms,             \* room key -> room record, or Null when no such room
    roomKeys,          \* the keys of rooms, in insertion order
    socketRoom,        \* socket.data.roomId of each socket (Null: never joined)
    closed,            \* the sockets that have disconnected
    timers,            \* pending setTimeout callbacks: [id, roomId, kind]
    nextTimerId,       \* identity of the next timer handle
    nextProjectileId   \* the shared projectile id counter

vars == << rooms, roomKeys, socketRoom, closed, timers, nextTimerId,
           nextProjectileId >>


\* ------------------------------------------------------------------------
\* Rooms and players
\* ------------------------------------------------------------------------
\* room.players is a JS object: a list of entries in insertion order.
playerIds(room) == { room.players[i].id : i \in 1..Len(room.players) }

playerIndex(room, id) ==
    CHOOSE i \in 1..Len(room.players) : room.players[i].id = id

cactiOf(layout) ==
    [ i \in 1..Len(layout) |-> [x |-> layout[i].x, y |-> layout[i].y, used |-> FALSE] ]

\* A room made already counting down: a variant used to test the strength
\* of the properties.
ensureRoomInCountdown ==
    [ players |-> << >>,
      projectiles |-> << >>,
      cacti |-> cactiOf(CACTI_LAYOUT),
      state |-> "countdown",
      hostId |-> Null,
      countdownTimeout |-> NoTimer,
      restartTimeout |-> NoTimer ]

\* The room ensureRoom creates when rooms[roomId] is missing.
ensureRoom ==
    [ players |-> << >>,
      projectiles |-> << >>,
      cacti |-> cactiOf(CACTI_LAYOUT),
      state |-> "waiting",
      hostId |-> Null,
      countdownTimeout |-> NoTimer,
      restartTimeout |-> NoTimer ]

\* The colours getColorForPlayer may return: the first unused palette entry,
\* or any palette entry (Math.random) when all are in use.
\* A colour assignment that always draws at random from the palette: a
\* variant used to test the strength of the properties.
getColorForPlayerAtRandom(room) == { COLORS[k] : k \in 1..Len(COLORS) }

getColorForPlayer(room) ==
    LET used == { room.players[i].color : i \in 1..Len(room.players) }
        free == { k \in 1..Len(COLORS) : COLORS[k] \notin used }
    IN  IF free # {}
        THEN { COLORS[CHOOSE k \in free : \A j \in free : k <= j] }
        ELSE { COLORS[k] : k \in 1..Len(COLORS) }

isTileBlockedByPlayer(room, x, y, ignoreId) ==
    \E i \in 1..Len(room.players) :
        /\ room.players[i].id # ignoreId
        /\ room.players[i].hp > 0
        /\ room.players[i].x = x
        /\ room.players[i].y = y

isCactusPos(room, x, y) ==
    \E i \in 1..Len(room.cacti) : room.cacti[i].x = x /\ room.cacti[i].y = y

\* Index of the cactus at (x, y), 0 when there is none (getCactusAt's null).
getCactusAt(room, x, y) ==
    IF isCactusPos(room, x, y)
    THEN CHOOSE i \in 1..Len(room.cacti) :
            /\ room.cacti[i].x = x /\ room.cacti[i].y = y
            /\ \A j \in 1..(i - 1) : ~(room.cacti[j].x = x /\ room.cacti[j].y = y)
    ELSE 0

isBlocked(room, x, y, ignoreId) ==
    \/ ~inGrid(x, y)
    \/ isWall(x, y) \/ isReflectWall(x, y)
    \/ isCactusPos(room, x, y)
    \/ isTileBlockedByPlayer(room, x, y, ignoreId)

\* A spawn test that forgets the spikes: a variant used to test the strength
\* of the properties.
isSpawnLegalOnSpikes(room, x, y) ==
    /\ ~isWall(x, y)
    /\ ~isReflectWall(x, y)
    /\ ~isCactusPos(room, x, y)
    /\ ~isTileBlockedByPlayer(room, x, y, Null)

isSpawnLegal(room, x, y) ==
    /\ ~isWall(x, y)
    /\ ~isReflectWall(x, y)
    /\ ~isSpike(x, y)
    /\ ~isCactusPos(room, x, y)
    /\ ~isTileBlockedByPlayer(room, x, y, Null)

\* The cells getRandomSpawn may return: any legal cell (the random draws, or
\* the row-major scan when all 800 draws fail); the origin when none is legal.
\* area is the part of the grid the draws are taken from.
getRandomSpawn(room, area) ==
    LET legal == { c \in area : isSpawnLegal(room, c.x, c.y) }
    IN  IF \A gx \in 0..(GRID_W - 1), gy \in 0..(GRID_H - 1) : ~isSpawnLegal(room, gx, gy)
        THEN { Cell(0, 0) }
        ELSE legal

facingFromDelta(dx, dy, currentFacing) ==
    IF dx = 1 /\ dy = 0 THEN "right"
    ELSE IF dx = -1 /\ dy = 0 THEN "left"
    ELSE IF dx = 0 /\ dy = -1 THEN "up"
    ELSE IF dx = 0 /\ dy = 1 THEN "down"
    ELSE currentFacing

facingToDelta(facing) ==
    CASE facing = "up" -> [dx |-> 0, dy |-> -1]
      [] facing = "down" -> [dx |-> 0, dy |-> 1]
      [] facing = "left" -> [dx |-> -1, dy |-> 0]
      [] facing = "right" -> [dx |-> 1, dy |-> 0]
      [] OTHER -> [dx |-> 0, dy |-> 1]

\* ------------------------------------------------------------------------
\* Bullet reload
\* ------------------------------------------------------------------------
\* A reload without the full-magazine test and without the cap: a variant
\* used to test the strength of the properties.
reloadBulletsOverfill(player, now) ==
    LET elapsed == now - player.lastReloadTime
        toAdd == elapsed \div BULLET_RELOAD_MS
    IN  IF elapsed < BULLET_RELOAD_MS
        THEN [player |-> player, changed |-> FALSE]
        ELSE [player |-> [player EXCEPT !.bulletsLoaded = @ + toAdd,
                                        !.lastReloadTime = @ + toAdd * BULLET_RELOAD_MS],
              changed |-> TRUE]

\* A reload that moves the anchor to now, dropping the progress towards the
\* next round: a variant used to test the strength of the properties.
reloadBulletsToNow(player, now) ==
    LET elapsed == now - player.lastReloadTime
        toAdd == elapsed \div BULLET_RELOAD_MS
        loaded == Min(MAX_BULLETS, player.bulletsLoaded + toAdd)
    IN  IF player.bulletsLoaded >= MAX_BULLETS
        THEN [player |-> [player EXCEPT !.lastReloadTime = now], changed |-> FALSE]
        ELSE IF elapsed < BULLET_RELOAD_MS
        THEN [player |-> player, changed |-> FALSE]
        ELSE [player |-> [player EXCEPT !.bulletsLoaded = loaded,
                                        !.lastReloadTime = now],
              changed |-> TRUE]

\* reloadBullets(player) at Date.now() = now: the player afterwards and the
\* value returned.  (bulletsLoaded is set by joinRoom, so it is never undefined.)
reloadBullets(player, now) ==
    IF player.bulletsLoaded >= MAX_BULLETS
    THEN [player |-> [player EXCEPT !.lastReloadTime = now], changed |-> FALSE]
    ELSE
      LET anchored == IF player.lastReloadTime = 0
                      THEN [player EXCEPT !.lastReloadTime = now]
                      ELSE player
          elapsed == now - anchored.lastReloadTime
          toAdd == elapsed \div BULLET_RELOAD_MS
          old == anchored.bulletsLoaded
          loaded == Min(MAX_BULLETS, old + toAdd)
          used == loaded - old
      IN  IF elapsed < BULLET_RELOAD_MS \/ toAdd <= 0
          THEN [player |-> anchored, changed |-> FALSE]
          ELSE [player |-> [anchored EXCEPT !.bulletsLoaded = loaded,
                                            !.lastReloadTime = @ + used * BULLET_RELOAD_MS],
                changed |-> loaded # old]

\* One tick period passes: seen from the fixed instant Now, a stored
\* timestamp becomes PROJECTILE_STEP_MS older.  Only the rooms whose players
\* the tick reloads are aged: lastReloadTime is read by reloadBullets alone,
\* which runs in playing and countdown, and startRound sets it to Date.now()
\* for every player before a room enters countdown.
agePlayer(player) ==
    [player EXCEPT !.lastReloadTime = Max(@ - PROJECTILE_STEP_MS, Now - MaxAge)]

ageRoom(room) ==
    IF room.state \notin { "playing", "countdown" } THEN room ELSE
    [room EXCEPT !.players = [ i \in 1..Len(room.players) |-> agePlayer(room.players[i]) ]]

\* ------------------------------------------------------------------------
\* Timers and round control
\* ------------------------------------------------------------------------
\* The timer handles clearRoomTimers(room) passes to clearTimeout.
\* A clearRoomTimers that cancels nothing: a variant used to test the
\* strength of the properties.
heldTimersNone(room) == {}

heldTimers(room) == { room.countdownTimeout, room.restartTimeout } \ { NoTimer }

clearRoomTimers(room) ==
    [room EXCEPT !.countdownTimeout = NoTimer, !.restartTimeout = NoTimer]

\* A clearProjectiles that leaves the list as it is: a variant used to test
\* the strength of the properties.
clearProjectilesKeeps(room) == room

clearProjectiles(room) == [room EXCEPT !.projectiles = << >>]

\* The ids.forEach of startRound from entry i on: each player is respawned
\* in turn, the draw of a later player seeing the earlier ones in place.
RECURSIVE respawnPlayers(_, _, _)
respawnPlayers(room, i, area) ==
    IF i > Len(room.players)
    THEN { room }
    ELSE UNION {
           respawnPlayers(
               [room EXCEPT !.players[i] =
                   [@ EXCEPT !.x = spawn.x, !.y = spawn.y, !.hp = FULL_HP,
                             !.facing = "down", !.bulletsLoaded = MAX_BULLETS,
                             !.lastReloadTime = Now]],
               i + 1, area)
           : spawn \in getRandomSpawn(room, area) }

\* startRound(roomId): the rooms it may leave behind.  handle is the timer
\* handle setTimeout returns when the countdown is scheduled.
startRound(room, handle, area) ==
    LET r0 == clearProjectiles(clearRoomTimers(room))
    IN  IF Len(r0.players) < 2
        THEN { [r0 EXCEPT !.state = "waiting"] }
        ELSE LET rearmed == [r0 EXCEPT !.cacti =
                               [ i \in 1..Len(r0.cacti) |-> [r0.cacti[i] EXCEPT !.used = FALSE] ]]
             IN  { [r EXCEPT !.state = "countdown", !.countdownTimeout = handle]
                   : r \in respawnPlayers(rearmed, 1, area) }

\* A round-end check that leaves the room as it is (the check deferred to a
\* later call): a variant used to test the strength of the properties.
handleRoundEndDeferred(room) == room

\* A round-end check that waits until nobody is left alive: a variant used
\* to test the strength of the properties.
handleRoundEndWhenNoneLeft(room) ==
    IF room.state # "playing" \/ \E i \in 1..Len(room.players) : room.players[i].hp > 0
    THEN room
    ELSE clearProjectiles(clearRoomTimers([room EXCEPT !.state = "round_over"]))

\* handleRoundEndIfNeeded(roomId) on an existing room.
handleRoundEndIfNeeded(room) ==
    LET alive == { i \in 1..Len(room.players) : room.players[i].hp > 0 }
    IN  IF room.state # "playing" \/ Cardinality(alive) > 1
        THEN room
        ELSE LET over == clearProjectiles(clearRoomTimers([room EXCEPT !.state = "round_over"]))
             IN  IF Cardinality(alive) = 1
                 THEN [over EXCEPT !.players[CHOOSE i \in alive : TRUE].score = @ + 1]
                 ELSE over

\* ------------------------------------------------------------------------
\* Registry helpers
\* ------------------------------------------------------------------------
roomExists(roomId) == roomId \in DOMAIN rooms

\* rooms[roomId] = room
putRoom(roomId, room) ==
    [ k \in DOMAIN rooms \cup { roomId } |-> IF k = roomId THEN room ELSE rooms[k] ]

\* A registry that keeps the room it is told to delete: a variant used to
\* test the strength of the properties.
deleteRoomKeeps(roomId) == rooms

\* delete rooms[roomId]
deleteRoom(roomId) == [ k \in DOMAIN rooms \ { roomId } |-> rooms[k] ]

removeKey(keys, roomId) == SelectSeq(keys, LAMBDA k : k # roomId)

\* room.players[id] = player: a new key is appended, an existing key keeps
\* its place.
setPlayer(players, player) ==
    IF \E i \in 1..Len(players) : players[i].id = player.id
    THEN [ i \in 1..Len(players) |->
             IF players[i].id = player.id THEN player ELSE players[i] ]
    ELSE Append(players, player)

\* delete room.players[id]
deletePlayer(players, id) == SelectSeq(players, LAMBDA p : p.id # id)

\* String(roomId || "").trim() || "lobby"
normalizeRoomId(key) == IF key = "" THEN "lobby" ELSE key

Init ==
    /\ rooms = << >>
    /\ roomKeys = << >>
    /\ socketRoom = [ s \in Sockets |-> Null ]
    /\ closed = {}
    /\ timers = {}
    /\ nextTimerId = 1
    /\ nextProjectileId = 1

\* ------------------------------------------------------------------------
\* socket.on("joinRoom")
\* ------------------------------------------------------------------------
JoinRoom(s, key, area) ==
    /\ s \notin closed
    /\ LET roomId == normalizeRoomId(key)
           existed == roomExists(roomId)
           room == IF existed THEN rooms[roomId] ELSE ensureRoom
           hosted == IF ~existed \/ room.hostId = Null
                     THEN [room EXCEPT !.hostId = s]
                     ELSE room
       IN  \E spawn \in getRandomSpawn(hosted, area), color \in getColorForPlayer(hosted) :
             LET player == [ id |-> s, x |-> spawn.x, y |-> spawn.y, color |-> color,
                             hp |-> FULL_HP, facing |-> "down", score |-> 0,
                             bulletsLoaded |-> MAX_BULLETS, lastReloadTime |-> Now ]
             IN  /\ rooms' = putRoom(roomId,
                                [hosted EXCEPT !.players = setPlayer(@, player)])
                 /\ roomKeys' = IF existed THEN roomKeys ELSE Append(roomKeys, roomId)
                 /\ socketRoom' = [socketRoom EXCEPT ![s] = roomId]
    /\ UNCHANGED << closed, timers, nextTimerId, nextProjectileId >>

\* ------------------------------------------------------------------------
\* socket.on("startRound")
\* ------------------------------------------------------------------------
\* Variants of the handler's guard used to test the strength of the
\* properties: one without the host check, one without the player count.
startRoundAcceptedFromAnyone(s) ==
    /\ socketRoom[s] # Null
    /\ roomExists(socketRoom[s])
    /\ Len(rooms[socketRoom[s]].players) >= 2
    /\ rooms[socketRoom[s]].state \notin { "countdown", "playing" }

startRoundAcceptedWhenAlone(s) ==
    /\ socketRoom[s] # Null
    /\ roomExists(socketRoom[s])
    /\ rooms[socketRoom[s]].hostId = s
    /\ rooms[socketRoom[s]].state \notin { "countdown", "playing" }

startRoundAccepted(s) ==
    /\ socketRoom[s] # Null
    /\ roomExists(socketRoom[s])
    /\ rooms[socketRoom[s]].hostId = s
    /\ Len(rooms[socketRoom[s]].players) >= 2
    /\ rooms[socketRoom[s]].state \notin { "countdown", "playing" }

\* What the handler leaves behind for a request of socket s: the registry,
\* the pending timers and the next timer handle (one outcome per spawn draw).
startRoundOutcomes(s, area) ==
    IF startRoundAccepted(s)
    THEN LET roomId == socketRoom[s]
             room == rooms[roomId]
         IN  { [ rooms |-> putRoom(roomId, started),
                 timers |-> { t \in timers : t.id \notin heldTimers(room) }
                              \cup (IF started.state = "countdown"
                                    THEN { [id |-> nextTimerId, roomId |-> roomId,
                                            kind |-> "countdown"] }
                                    ELSE {}),
                 nextTimerId |-> IF started.state = "countdown"
                                 THEN nextTimerId + 1 ELSE nextTimerId ]
               : started \in startRound(room, nextTimerId, area) }
    ELSE { [ rooms |-> rooms, timers |-> timers, nextTimerId |-> nextTimerId ] }

StartRound(s, area) ==
    /\ s \notin closed
    /\ \E out \in startRoundOutcomes(s, area) :
          /\ rooms' = out.rooms
          /\ timers' = out.timers
          /\ nextTimerId' = out.nextTimerId
    /\ UNCHANGED << roomKeys, socketRoom, closed, nextProjectileId >>

\* ------------------------------------------------------------------------
\* The callback startRound hands to setTimeout(..., 3000)
\* ------------------------------------------------------------------------
\* A callback that drops the timer handle and leaves the state alone: a
\* variant used to test the strength of the properties.
countdownElapsedStays(room) == [room EXCEPT !.countdownTimeout = NoTimer]

countdownElapsed(room) ==
    LET r == [room EXCEPT !.countdownTimeout = NoTimer]
    IN  IF Len(r.players) < 2
        THEN [r EXCEPT !.state = "waiting"]
        ELSE [r EXCEPT !.state = "playing"]

CountdownTimeout(t) ==
    /\ t \in timers
    /\ t.kind = "countdown"
    /\ timers' = timers \ { t }
    /\ rooms' = IF roomExists(t.roomId)
                THEN putRoom(t.roomId, countdownElapsed(rooms[t.roomId]))
                ELSE rooms
    /\ UNCHANGED << roomKeys, socketRoom, closed, nextTimerId, nextProjectileId >>

\* ------------------------------------------------------------------------
\* socket.on("move")
\* ------------------------------------------------------------------------
directionDelta(direction) ==
    CASE direction = "up" -> [dx |-> 0, dy |-> -1]
      [] direction = "down" -> [dx |-> 0, dy |-> 1]
      [] direction = "left" -> [dx |-> -1, dy |-> 0]
      [] direction = "right" -> [dx |-> 1, dy |-> 0]

moveAccepted(s, direction) ==
    /\ socketRoom[s] # Null
    /\ roomExists(socketRoom[s])
    /\ rooms[socketRoom[s]].state = "playing"
    /\ s \in playerIds(rooms[socketRoom[s]])
    /\ rooms[socketRoom[s]].players[playerIndex(rooms[socketRoom[s]], s)].hp > 0
    /\ direction \in { "up", "down", "left", "right" }

\* The room after an accepted move of player s.
movePlayer(room, s, direction) ==
    LET i == playerIndex(room, s)
        player == room.players[i]
        d == directionDelta(direction)
        toX == player.x + d.dx
        toY == player.y + d.dy
        turned == [room EXCEPT !.players[i].facing = facingFromDelta(d.dx, d.dy, player.facing)]
    IN  IF isBlocked(turned, toX, toY, s)
        THEN turned
        ELSE LET moved == [turned EXCEPT !.players[i].x = toX, !.players[i].y = toY]
             IN  IF isSpike(toX, toY) /\ player.hp > 0
                 THEN handleRoundEndIfNeeded(
                          [moved EXCEPT !.players[i].hp = Max(0, player.hp - 1)])
                 ELSE moved

\* What the handler leaves behind for a move intent of socket s: the registry
\* and the pending timers.
moveOutcome(s, direction) ==
    IF moveAccepted(s, direction)
    THEN LET roomId == socketRoom[s]
             room == rooms[roomId]
             after == movePlayer(room, s, direction)
         IN  [ rooms |-> putRoom(roomId, after),
               timers |-> IF after.state # room.state
                          THEN { t \in timers : t.id \notin heldTimers(room) }
                          ELSE timers ]
    ELSE [ rooms |-> rooms, timers |-> timers ]

Move(s, direction) ==
    /\ s \notin closed
    /\ rooms' = moveOutcome(s, direction).rooms
    /\ timers' = moveOutcome(s, direction).timers
    /\ UNCHANGED << roomKeys, socketRoom, closed, nextTimerId, nextProjectileId >>

\* ------------------------------------------------------------------------
\* socket.on("shoot")
\* ------------------------------------------------------------------------
\* A guard that lets the dead shoot: a variant used to test the strength of
\* the properties.
shootAcceptedByDead(s) ==
    /\ socketRoom[s] # Null
    /\ roomExists(socketRoom[s])
    /\ rooms[socketRoom[s]].state = "playing"
    /\ s \in playerIds(rooms[socketRoom[s]])

shootAccepted(s) ==
    /\ socketRoom[s] # Null
    /\ roomExists(socketRoom[s])
    /\ rooms[socketRoom[s]].state = "playing"
    /\ s \in playerIds(rooms[socketRoom[s]])
    /\ rooms[socketRoom[s]].players[playerIndex(rooms[socketRoom[s]], s)].hp > 0

\* A hit test that never finds a player: a variant used to test the strength
\* of the properties.
firstHitNone(room, x, y) == 0

\* Index of the first living player on (x, y) in Object.entries order, 0 when
\* there is none (hitId = null).
firstHit(room, x, y) ==
    LET on == { i \in 1..Len(room.players) :
                  room.players[i].hp > 0 /\ room.players[i].x = x /\ room.players[i].y = y }
    IN  IF on = {} THEN 0 ELSE CHOOSE i \in on : \A j \in on : i <= j

\* The room after an accepted shoot of player s, and whether a projectile id
\* was drawn.  id is the value of nextProjectileId.
shoot(room, s, id) ==
    LET i == playerIndex(room, s)
        shooter == reloadBullets(room.players[i], Now).player
        reloaded == [room EXCEPT !.players[i] = shooter]
    IN  IF shooter.bulletsLoaded <= 0
        THEN [room |-> reloaded, drew |-> FALSE]
        ELSE
          LET fired == [reloaded EXCEPT !.players[i].bulletsLoaded =
                                           Max(0, shooter.bulletsLoaded - 1)]
              d == facingToDelta(shooter.facing)
              startX == shooter.x + d.dx
              startY == shooter.y + d.dy
              hit == firstHit(fired, startX, startY)
          IN  IF d.dx = 0 /\ d.dy = 0
              THEN [room |-> fired, drew |-> FALSE]
              ELSE IF \/ ~inGrid(startX, startY)
                      \/ isWall(startX, startY) \/ isReflectWall(startX, startY)
                      \/ isCactusPos(fired, startX, startY)
              THEN [room |-> fired, drew |-> FALSE]
              ELSE IF hit # 0
              THEN [room |-> handleRoundEndIfNeeded(
                                [fired EXCEPT !.players[hit].hp = Max(0, @ - 1)]),
                    drew |-> TRUE]
              ELSE [room |-> [fired EXCEPT !.projectiles =
                                  Append(@, [id |-> id, x |-> startX, y |-> startY,
                                             dx |-> d.dx, dy |-> d.dy, shooterId |-> s])],
                    drew |-> TRUE]

\* What the handler leaves behind for a shoot intent of socket s: the
\* registry, the pending timers and the next projectile id.
shootOutcome(s) ==
    IF shootAccepted(s)
    THEN LET roomId == socketRoom[s]
             room == rooms[roomId]
             out == shoot(room, s, nextProjectileId)
         IN  [ rooms |-> putRoom(roomId, out.room),
               timers |-> IF out.room.state # room.state
                          THEN { t \in timers : t.id \notin heldTimers(room) }
                          ELSE timers,
               nextProjectileId |-> IF out.drew THEN nextProjectileId + 1
                                    ELSE nextProjectileId ]
    ELSE [ rooms |-> rooms, timers |-> timers, nextProjectileId |-> nextProjectileId ]

Shoot(s) ==
    /\ s \notin closed
    /\ rooms' = shootOutcome(s).rooms
    /\ timers' = shootOutcome(s).timers
    /\ nextProjectileId' = shootOutcome(s).nextProjectileId
    /\ UNCHANGED << roomKeys, socketRoom, closed, nextTimerId >>

\* ------------------------------------------------------------------------
\* socket.on("disconnect")
\* ------------------------------------------------------------------------
\* A disconnect that leaves the round state alone: a variant used to test the
\* strength of the properties.
disconnectKeepsState(room, s) ==
    LET left == [room EXCEPT !.players = deletePlayer(@, s)]
        rehosted == IF left.hostId = s
                    THEN [left EXCEPT !.hostId = IF Len(left.players) > 0
                                                 THEN left.players[1].id ELSE Null]
                    ELSE left
    IN  clearProjectiles(clearRoomTimers(rehosted))

\* The room after socket s left it (before it is deleted when empty).
disconnect(room, s) ==
    LET left == [room EXCEPT !.players = deletePlayer(@, s)]
        rehosted == IF left.hostId = s
                    THEN [left EXCEPT !.hostId = IF Len(left.players) > 0
                                                 THEN left.players[1].id ELSE Null]
                    ELSE left
        cleared == clearProjectiles(clearRoomTimers(rehosted))
    IN  IF Len(cleared.players) > 0 /\ cleared.state \notin { "waiting", "round_over" }
        THEN [cleared EXCEPT !.state = "waiting"]
        ELSE cleared

Disconnect(s) ==
    /\ s \notin closed
    /\ closed' = closed \cup { s }
    /\ IF socketRoom[s] # Null /\ roomExists(socketRoom[s])
       THEN LET roomId == socketRoom[s]
                room == rooms[roomId]
                after == disconnect(room, s)
            IN  /\ timers' = { t \in timers : t.id \notin heldTimers(room) }
                /\ IF Len(after.players) = 0
                   THEN /\ rooms' = deleteRoom(roomId)
                        /\ roomKeys' = removeKey(roomKeys, roomId)
                   ELSE /\ rooms' = putRoom(roomId, after)
                        /\ roomKeys' = roomKeys
       ELSE UNCHANGED << rooms, roomKeys, timers >>
    /\ UNCHANGED << socketRoom, nextTimerId, nextProjectileId >>

\* ------------------------------------------------------------------------
\* tickProjectilesAndReload
\* ------------------------------------------------------------------------
\* The reload loop of one room.
reloadRoom(room) ==
    IF room.state \in { "playing", "countdown" }
    THEN [room EXCEPT !.players =
            [ i \in 1..Len(room.players) |-> reloadBullets(room.players[i], Now).player ]]
    ELSE room

\* extended: every projectile with its tentative next cell.
extend(projs) ==
    [ i \in 1..Len(projs) |->
        [ id |-> projs[i].id, x |-> projs[i].x, y |-> projs[i].y,
          dx |-> projs[i].dx, dy |-> projs[i].dy, shooterId |-> projs[i].shooterId,
          nx |-> projs[i].x + projs[i].dx, ny |-> projs[i].y + projs[i].dy ] ]

\* The segMap key of a projectile: the unit segment it traverses.
segKey(p) ==
    IF p.dx # 0
    THEN << "h", Min(p.x, p.nx), p.y >>
    ELSE << "v", p.x, Min(p.y, p.ny) >>

\* A collision pass that cancels nothing: a variant used to test the
\* strength of the properties.
pairCancelNothing(aArr, bArr) == {}

\* A pairing that takes the last elements of each list instead of the
\* first: a variant used to test the strength of the properties.
pairCancelFromEnd(aArr, bArr) ==
    LET pairs == Min(Len(aArr), Len(bArr))
    IN  { aArr[Len(aArr) + 1 - i].id : i \in 1..pairs }
          \cup { bArr[Len(bArr) + 1 - i].id : i \in 1..pairs }

\* The ids pairCancel(aArr, bArr) adds to toRemove: the first
\* min(|aArr|, |bArr|) elements of each list.
pairCancel(aArr, bArr) ==
    LET pairs == Min(Len(aArr), Len(bArr))
    IN  { aArr[i].id : i \in 1..pairs } \cup { bArr[i].id : i \in 1..pairs }

\* toRemove after the crossing-collision pass.
crossingCollisions(ext) ==
    LET moving == SelectSeq(ext, LAMBDA p : ~(p.dx = 0 /\ p.dy = 0))
        keys == { segKey(moving[i]) : i \in 1..Len(moving) }
        removedAt(key) ==
            LET list == SelectSeq(moving, LAMBDA p : segKey(p) = key)
                pos == IF key[1] = "h" THEN SelectSeq(list, LAMBDA p : p.dx > 0)
                                       ELSE SelectSeq(list, LAMBDA p : p.dy > 0)
                neg == IF key[1] = "h" THEN SelectSeq(list, LAMBDA p : p.dx < 0)
                                       ELSE SelectSeq(list, LAMBDA p : p.dy < 0)
            IN  IF Len(list) < 2 THEN {} ELSE pairCancel(pos, neg)
    IN  UNION { removedAt(key) : key \in keys }

\* What the same-tile pass adds to toRemove.
sameTileCollisions(ext, toRemove) ==
    LET kept == SelectSeq(ext, LAMBDA p : p.id \notin toRemove)
        tiles == { << kept[i].nx, kept[i].ny >> : i \in 1..Len(kept) }
        removedAt(tile) ==
            LET g == SelectSeq(kept, LAMBDA p : << p.nx, p.ny >> = tile)
                left == SelectSeq(g, LAMBDA p : p.dx = -1)
                right == SelectSeq(g, LAMBDA p : p.dx = 1)
                up == SelectSeq(g, LAMBDA p : p.dx # -1 /\ p.dx # 1 /\ p.dy = -1)
                down == SelectSeq(g, LAMBDA p : p.dx # -1 /\ p.dx # 1 /\ p.dy # -1 /\ p.dy = 1)
            IN  IF Len(g) < 2 THEN {}
                ELSE pairCancel(left, right) \cup pairCancel(up, down)
    IN  UNION { removedAt(tile) : tile \in tiles }

collisions(ext) ==
    LET crossed == crossingCollisions(ext)
    IN  crossed \cup sameTileCollisions(ext, crossed)

strip(p, x, y, dx, dy) ==
    [ id |-> p.id, x |-> x, y |-> y, dx |-> dx, dy |-> dy, shooterId |-> p.shooterId ]

\* The projectile a reflect wall sends back: where it was, direction negated.
\* bounceThrough, which lets it fly on, is a variant used to test the
\* strength of the properties.
bounceThrough(p) == strip(p, p.nx, p.ny, p.dx, p.dy)

bounce(p) == strip(p, p.x, p.y, -p.dx, -p.dy)

BurstDirs == << [dx |-> 1, dy |-> 0], [dx |-> -1, dy |-> 0],
                [dx |-> 0, dy |-> 1], [dx |-> 0, dy |-> -1] >>

\* A cactus that bursts into nothing: a variant used to test the strength of
\* the properties.
burstNothing(room, p, nx, ny, k, nextId) == << >>

\* dirs.forEach of the cactus branch from direction k on: the projectiles
\* spawned around the cactus at (nx, ny), ids drawn from nextId upwards.
RECURSIVE burst(_, _, _, _, _, _)
burst(room, p, nx, ny, k, nextId) ==
    IF k > Len(BurstDirs)
    THEN << >>
    ELSE LET sx == nx + BurstDirs[k].dx
             sy == ny + BurstDirs[k].dy
         IN  IF \/ ~inGrid(sx, sy)
                \/ isWall(sx, sy) \/ isReflectWall(sx, sy)
                \/ getCactusAt(room, sx, sy) # 0
             THEN burst(room, p, nx, ny, k + 1, nextId)
             ELSE << [ id |-> nextId, x |-> sx, y |-> sy,
                       dx |-> BurstDirs[k].dx, dy |-> BurstDirs[k].dy,
                       shooterId |-> p.shooterId ] >>
                  \o burst(room, p, nx, ny, k + 1, nextId + 1)

\* One iteration of the per-projectile loop.  acc carries the room, the
\* remaining and spawned lists, the id counter and the cleared timer handles.
stepProjectile(acc, p, toRemove) ==
    LET room == acc.room
        cactus == getCactusAt(room, p.nx, p.ny)
        hit == firstHit(room, p.nx, p.ny)
    IN  IF p.id \in toRemove THEN acc
        ELSE IF ~inGrid(p.nx, p.ny) THEN acc
        ELSE IF isReflectWall(p.nx, p.ny)
        THEN [acc EXCEPT !.remaining = Append(@, bounce(p))]
        ELSE IF isWall(p.nx, p.ny) THEN acc
        ELSE IF cactus # 0
        THEN IF ~room.cacti[cactus].used
             THEN LET born == burst(room, p, p.nx, p.ny, 1, acc.nextId)
                  IN  [acc EXCEPT !.room.cacti[cactus].used = TRUE,
                                  !.spawned = @ \o born,
                                  !.nextId = @ + Len(born)]
             ELSE acc
        ELSE IF hit # 0
        THEN LET hurt == [room EXCEPT !.players[hit].hp = Max(0, @ - 1)]
                 ended == handleRoundEndIfNeeded(hurt)
             IN  [acc EXCEPT !.room = ended,
                             !.cleared = IF ended.state # hurt.state
                                         THEN @ \cup heldTimers(hurt) ELSE @]
        ELSE [acc EXCEPT !.remaining = Append(@, strip(p, p.nx, p.ny, p.dx, p.dy))]

\* A loop that lets the cancelled projectiles act as well: a variant used to
\* test the strength of the properties.
RECURSIVE resolveCancelledToo(_, _, _, _)
resolveCancelledToo(acc, ext, toRemove, i) ==
    IF i > Len(ext) THEN acc
    ELSE resolveCancelledToo(stepProjectile(acc, ext[i], {}), ext, toRemove, i + 1)

RECURSIVE resolve(_, _, _, _)
resolve(acc, ext, toRemove, i) ==
    IF i > Len(ext) THEN acc
    ELSE resolve(stepProjectile(acc, ext[i], toRemove), ext, toRemove, i + 1)

\* A tick that does not keep the ids its bursts drew: a variant used to test
\* the strength of the properties.
tickRoomForgetsIds(room, nextId) ==
    LET reloaded == reloadRoom(room)
    IN  IF reloaded.state # "playing" \/ Len(reloaded.projectiles) = 0
        THEN [room |-> reloaded, nextId |-> nextId, cleared |-> {}]
        ELSE LET ext == extend(reloaded.projectiles)
                 done == resolve([room |-> reloaded, remaining |-> << >>,
                                  spawned |-> << >>, nextId |-> nextId, cleared |-> {}],
                                 ext, collisions(ext), 1)
             IN  [room |-> [done.room EXCEPT !.projectiles = done.remaining \o done.spawned],
                  nextId |-> nextId,
                  cleared |-> done.cleared]

\* The body of the tick's loop for one room: the room afterwards, the id
\* counter afterwards and the timer handles cleared.
tickRoom(room, nextId) ==
    LET reloaded == reloadRoom(room)
    IN  IF reloaded.state # "playing" \/ Len(reloaded.projectiles) = 0
        THEN [room |-> reloaded, nextId |-> nextId, cleared |-> {}]
        ELSE LET ext == extend(reloaded.projectiles)
                 done == resolve([room |-> reloaded, remaining |-> << >>,
                                  spawned |-> << >>, nextId |-> nextId, cleared |-> {}],
                                 ext, collisions(ext), 1)
             IN  [room |-> [done.room EXCEPT !.projectiles = done.remaining \o done.spawned],
                  nextId |-> done.nextId,
                  cleared |-> done.cleared]

\* The tick's loop over Object.entries(rooms) from entry k on.
RECURSIVE tickRooms(_, _, _, _)
tickRooms(rs, k, nextId, cleared) ==
    IF k > Len(roomKeys)
    THEN [rooms |-> rs, nextId |-> nextId, cleared |-> cleared]
    ELSE LET out == tickRoom(ageRoom(rs[roomKeys[k]]), nextId)
         IN  tickRooms([rs EXCEPT ![roomKeys[k]] = out.room], k + 1,
                       out.nextId, cleared \cup out.cleared)

Tick ==
    LET out == tickRooms(rooms, 1, nextProjectileId, {})
    IN  /\ rooms' = out.rooms
        /\ nextProjectileId' = out.nextId
        /\ timers' = { t \in timers : t.id \notin out.cleared }
        /\ UNCHANGED << roomKeys, socketRoom, closed, nextTimerId >>

\* ------------------------------------------------------------------------
\* The environment and the system
\* ------------------------------------------------------------------------
\* The move intents the environment sends: every intent the handler ignores,
\* and of those it accepts the ones that steer the player onto a cell of walk
\* or against an obstacle (which only turns the player).
moveOffered(s, direction, walk) ==
    moveAccepted(s, direction) =>
        LET room == rooms[socketRoom[s]]
            player == room.players[playerIndex(room, s)]
            d == directionDelta(direction)
        IN  \/ Cell(player.x + d.dx, player.y + d.dy) \in walk
            \/ isBlocked(room, player.x + d.dx, player.y + d.dy, s)

\* Two connections duel in one room, each joining once.
Next ==
    \/ \E s \in Duelists, key \in RoomKeyInputs :
          socketRoom[s] = Null /\ JoinRoom(s, key, SpawnArea)
    \/ \E s \in Duelists : nextTimerId <= MaxRounds /\ StartRound(s, SpawnArea)
    \/ \E t \in timers : CountdownTimeout(t)
    \/ \E s \in Walkers, direction \in DirectionInputs :
          moveOffered(s, direction, WalkArea) /\ Move(s, direction)
    \/ \E s \in Shooters : nextProjectileId <= MaxShots /\ Shoot(s)
    \/ \E s \in Duelists : Disconnect(s)
    \/ Tick

Spec == Init /\ [][Next]_vars

NextReflect ==
    \/ \E s \in Duelists, key \in RoomKeyInputs :
          socketRoom[s] = Null /\ JoinRoom(s, key, ReflectSpawn)
    \/ \E s \in Duelists : nextTimerId <= MaxRounds /\ StartRound(s, ReflectSpawn)
    \/ \E t \in timers : CountdownTimeout(t)
    \/ \E s \in Walkers, direction \in DirectionInputs :
          moveOffered(s, direction, ReflectWalk) /\ Move(s, direction)
    \/ \E s \in Duelists : nextProjectileId <= ReflectShots /\ Shoot(s)
    \/ \E s \in Duelists : Disconnect(s)
    \/ Tick

SpecReflect == Init /\ [][NextReflect]_vars

NextCactus ==
    \/ \E s \in Duelists, key \in RoomKeyInputs :
          socketRoom[s] = Null /\ JoinRoom(s, key, CactusSpawn)
    \/ \E s \in Duelists : nextTimerId <= MaxRounds /\ StartRound(s, CactusSpawn)
    \/ \E t \in timers : CountdownTimeout(t)
    \/ \E s \in Duelists, direction \in DirectionInputs :
          moveOffered(s, direction, CactusWalk) /\ Move(s, direction)
    \/ \E s \in Duelists : nextProjectileId <= CactusShots /\ Shoot(s)
    \/ \E s \in Duelists : Disconnect(s)
    \/ Tick

SpecCactus == Init /\ [][NextCactus]_vars

\* The cell the spawn draw of a join yields in the runs that fix it: the
\* first cell of area, in row-major order, that is legal in the room joined.
firstFree(roomId, area) ==
    LET room == IF roomExists(roomId) THEN rooms[roomId] ELSE ensureRoom
        legal == { c \in area : isSpawnLegal(room, c.x, c.y) }
    IN  { c \in legal : \A o \in legal : c.y < o.y \/ (c.y = o.y /\ c.x <= o.x) }

\* Three connections come and go between two rooms.
NextLobby ==
    \/ \E s \in Visitors, key \in LobbyKeys :
          /\ s \in Rovers \/ socketRoom[s] = Null
          /\ JoinRoom(s, key, firstFree(normalizeRoomId(key), LobbySpawn))
    \/ \E s \in Visitors : StartRound(s, LobbySpawn)
    \/ \E t \in timers : CountdownTimeout(t)
    \/ \E s \in Visitors : Disconnect(s)
    \/ Tick

SpecLobby == Init /\ [][NextLobby]_vars

\* Three connections play in one room and stay connected.
NextTrio ==
    \/ \E s \in Visitors, key \in RoomKeyInputs :
          /\ socketRoom[s] = Null
          /\ JoinRoom(s, key, firstFree(normalizeRoomId(key), TrioSpawn))
    \/ \E s \in Visitors : nextTimerId <= TrioRounds /\ StartRound(s, TrioSpawn)
    \/ \E t \in timers : CountdownTimeout(t)
    \/ \E s \in Walkers, direction \in DirectionInputs :
          moveOffered(s, direction, WalkArea) /\ Move(s, direction)
    \/ \E s \in Shooters : nextProjectileId <= TrioShots /\ Shoot(s)
    \/ Tick

SpecTrio == Init /\ [][NextTrio]_vars

\* Two rooms are played side by side; the clients stay connected and do not
\* move.
NextArenas ==
    \/ \E s \in Quartet :
          /\ socketRoom[s] = Null
          /\ JoinRoom(s, ArenaKey[s], firstFree(normalizeRoomId(ArenaKey[s]), ArenaSpawn))
    \/ \E s \in Quartet : StartRound(s, ArenaSpawn)
    \/ \E t \in timers : CountdownTimeout(t)
    \/ \E s \in Gunners : nextProjectileId <= ArenaShots /\ Shoot(s)
    \/ Tick

SpecArenas == Init /\ [][NextArenas]_vars

\* Nine connections fill one room and leave it.
NextCrowd ==
    \/ \E i \in 1..Len(Crowd) :
          /\ socketRoom[Crowd[i]] = Null \/ Crowd[i] \in Rovers
          /\ i > 1 => socketRoom[Crowd[i - 1]] # Null
          /\ JoinRoom(Crowd[i], "", firstFree("lobby", CrowdSpawn))
    \/ \E s \in Leavers : Disconnect(s)
    \/ Tick

SpecCrowd == Init /\ [][NextCrowd]_vars

\* A pending timer callback eventually runs (Node fires a timer that is not
\* cleared).
NextCrossfire ==
    \/ \E s \in Duelists :
          socketRoom[s] = Null /\ JoinRoom(s, "", firstFree("lobby", CrossfireSpawn))
    \/ \E s \in Duelists : nextTimerId <= CrossfireRounds /\ StartRound(s, CrossfireSpawn)
    \/ \E t \in timers : CountdownTimeout(t)
    \/ \E s \in Walkers, direction \in DirectionInputs :
          moveOffered(s, direction, CrossfireWalk) /\ Move(s, direction)
    \/ \E s \in Duelists : nextProjectileId <= CrossfireShots /\ Shoot(s)
    \/ Tick

SpecCrossfire == Init /\ [][NextCrossfire]_vars

\* The clients of the last stand hold their fire until their player is down
\* to its last health point.
lastLife(s) ==
    /\ socketRoom[s] # Null
    /\ roomExists(socketRoom[s])
    /\ \E i \in 1..Len(rooms[socketRoom[s]].players) :
          /\ rooms[socketRoom[s]].players[i].id = s
          /\ rooms[socketRoom[s]].players[i].hp = 1

NextLastStand ==
    \/ \E s \in Duelists :
          socketRoom[s] = Null /\ JoinRoom(s, "", firstFree("lobby", CrossfireSpawn))
    \/ \E s \in Duelists : nextTimerId <= LastStandRounds /\ StartRound(s, CrossfireSpawn)
    \/ \E t \in timers : CountdownTimeout(t)
    \/ \E s \in Duelists, direction \in DirectionInputs :
          moveOffered(s, direction, LastStandWalk[s]) /\ Move(s, direction)
    \/ \E s \in Duelists :
          /\ nextProjectileId <= LastStandShots
          /\ lastLife(s)
          /\ Shoot(s)
    \/ Tick

SpecLastStand == Init /\ [][NextLastStand]_vars

NextCorridor ==
    \/ \E s \in Duelists :
          socketRoom[s] = Null /\ JoinRoom(s, "", firstFree("lobby", CorridorSpawn))
    \/ \E s \in Duelists : nextTimerId <= CorridorRounds /\ StartRound(s, CorridorSpawn)
    \/ \E t \in timers : CountdownTimeout(t)
    \/ \E s \in Duelists, direction \in DirectionInputs :
          moveOffered(s, direction, CorridorWalk) /\ Move(s, direction)
    \/ \E s \in Duelists : nextProjectileId <= CorridorShots /\ Shoot(s)
    \/ Tick

SpecCorridor == Init /\ [][NextCorridor]_vars

FairSpec == Spec /\ WF_vars(\E t \in timers : CountdownTimeout(t))

\* ------------------------------------------------------------------------
\* Properties
\* ------------------------------------------------------------------------
aliveOf(room) == { i \in 1..Len(room.players) : room.players[i].hp > 0 }

\* The same players are in room k before and after the step.
samePlayers(k) ==
    /\ k \in DOMAIN rooms'
    /\ Len(rooms'[k].players) = Len(rooms[k].players)
    /\ \A i \in 1..Len(rooms[k].players) : rooms'[k].players[i].id = rooms[k].players[i].id

\* The step reduced the health of a player of room k.
healthReduced(k) ==
    /\ samePlayers(k)
    /\ \E i \in 1..Len(rooms[k].players) : rooms'[k].players[i].hp < rooms[k].players[i].hp

\* One player of room k who was alive before the step gained one point,
\* nobody else's score changed and nobody else is alive after the step.  (The
\* winner itself may have been hit later in the same tick.)
oneWinner(k) ==
    \E w \in aliveOf(rooms[k]) :
        /\ aliveOf(rooms'[k]) \subseteq { w }
        /\ \A i \in 1..Len(rooms[k].players) :
              rooms'[k].players[i].score =
                  rooms[k].players[i].score + (IF i = w THEN 1 ELSE 0)

\* The sole survivor of room k gained one point and nobody else's score
\* changed; or nobody survived and no score changed.
survivorCredited(k) ==
    \/ oneWinner(k)
    \/ /\ aliveOf(rooms'[k]) = {}
       /\ \A i \in 1..Len(rooms[k].players) :
             rooms'[k].players[i].score = rooms[k].players[i].score

C2_RoundOverHasNoProjectiles ==
    \A k \in DOMAIN rooms :
        rooms[k].state = "round_over" => Len(rooms[k].projectiles) = 0

\* The connections that can still send a request.
Connected == { s \in Sockets : s \notin closed }

\* The conditions under which the specification lets a start request act.
startPermitted(s) ==
    /\ socketRoom[s] \in DOMAIN rooms
    /\ rooms[socketRoom[s]].hostId = s
    /\ Len(rooms[socketRoom[s]].players) >= 2
    /\ rooms[socketRoom[s]].state # "countdown"
    /\ rooms[socketRoom[s]].state # "playing"

\* C7: a start-round request that does not come from the host of an existing
\* room with at least two players in a state other than countdown and
\* playing leaves every room (state, players, projectiles, cacti, timer
\* handles) and the pending timers unchanged.
C7_StartRequestGuard ==
    \A s \in Connected :
        ~startPermitted(s) =>
            \A out \in startRoundOutcomes(s, SpawnArea) :
                /\ out.rooms = rooms
                /\ out.timers = timers
                /\ out.nextTimerId = nextTimerId

\* A round was started on request while a connected player who is not the
\* host (whose own request is refused) is in the room.
C7_Witness ==
    \E s \in Connected :
        /\ socketRoom[s] \in DOMAIN rooms
        /\ rooms[socketRoom[s]].state = "countdown"
        /\ rooms[socketRoom[s]].hostId # s
        /\ s \in playerIds(rooms[socketRoom[s]])

\* The rooms whose start request comes from socket s with fewer than two
\* players present.
shortHanded(s) ==
    /\ socketRoom[s] \in DOMAIN rooms
    /\ Len(rooms[socketRoom[s]].players) < 2

\* C8 (as stated): after any start-round request made while the room has
\* fewer than two players, the room's state is waiting.
C8_AsStated ==
    \A s \in Connected :
        shortHanded(s) =>
            \A out \in startRoundOutcomes(s, SpawnArea) :
                out.rooms[socketRoom[s]].state = "waiting"

\* C8 (amended): a start-round request made while the room has fewer than
\* two players is ignored: the room is left exactly as it was (waiting or
\* round_over) and is never put into countdown; the startRound procedure
\* itself, run on such a room, yields waiting.
C8_ShortHandedStart ==
    \A s \in Connected :
        shortHanded(s) =>
            /\ \A out \in startRoundOutcomes(s, SpawnArea) :
                  /\ out.rooms[socketRoom[s]] = rooms[socketRoom[s]]
                  /\ out.rooms[socketRoom[s]].state \in { "waiting", "round_over" }
            /\ \A started \in startRound(rooms[socketRoom[s]], nextTimerId, SpawnArea) :
                  started.state = "waiting"

\* The host is alone in a room whose round is over.
C8_Witness ==
    \E s \in Connected :
        /\ shortHanded(s)
        /\ rooms[socketRoom[s]].hostId = s
        /\ rooms[socketRoom[s]].state = "round_over"

\* A legal spawn position of player i of room: inside the grid, on no wall,
\* reflect wall, spike or cactus, and on no other player's cell.
wellPlaced(room, i) ==
    LET p == room.players[i]
    IN  /\ inGrid(p.x, p.y)
        /\ Cell(p.x, p.y) \notin WALLS \cup REFLECT_WALLS \cup SPIKES
        /\ \A c \in 1..Len(CACTI_LAYOUT) :
              Cell(p.x, p.y) # Cell(CACTI_LAYOUT[c].x, CACTI_LAYOUT[c].y)
        /\ \A j \in 1..Len(room.players) :
              j # i => Cell(p.x, p.y) # Cell(room.players[j].x, room.players[j].y)

\* C9: when an accepted start request puts a room into countdown, the room
\* has no projectiles, every cactus is unused, exactly one countdown timer
\* of the room is pending (the one the room holds), and every player has
\* health 5, faces down, has 3 bullets and stands on a legal cell different
\* from every other player's.
C9_CountdownEntry ==
    \A s \in Connected :
        \A out \in startRoundOutcomes(s, SpawnArea) :
            LET k == socketRoom[s]
            IN  (k \in DOMAIN rooms /\ rooms[k].state # "countdown"
                   /\ out.rooms[k].state = "countdown") =>
                  LET room == out.rooms[k]
                      pending == { t \in out.timers : t.roomId = k }
                  IN  /\ Len(room.projectiles) = 0
                      /\ \A c \in 1..Len(room.cacti) : ~room.cacti[c].used
                      /\ Cardinality(pending) = 1
                      /\ \A t \in pending :
                            t.kind = "countdown" /\ t.id = room.countdownTimeout
                      /\ \A i \in 1..Len(room.players) :
                            /\ room.players[i].hp = 5
                            /\ room.players[i].facing = "down"
                            /\ room.players[i].bulletsLoaded = 3
                            /\ wellPlaced(room, i)

\* A second round has been started: the room is in countdown again and a
\* player holds a point from the round before.
C9_Witness ==
    \E k \in DOMAIN rooms :
        /\ rooms[k].state = "countdown"
        /\ \E t \in timers : t.roomId = k /\ t.id = rooms[k].countdownTimeout
        /\ \E i \in 1..Len(rooms[k].players) : rooms[k].players[i].score > 0

RoomIds == { normalizeRoomId(key) : key \in RoomKeyInputs }

inCountdown(k) == k \in DOMAIN rooms /\ rooms[k].state = "countdown"

inPlaying(k) == k \in DOMAIN rooms /\ rooms[k].state = "playing"

\* C10: every room in countdown eventually leaves countdown; the countdown
\* callback puts a room in countdown into playing when at least two players
\* are present and into waiting otherwise; and a room enters playing only
\* from countdown, by that callback, with at least two players.
C10_CountdownEnds ==
    /\ \A k \in RoomIds : inCountdown(k) ~> ~inCountdown(k)
    /\ [][ \A t \in timers :
              (CountdownTimeout(t) /\ inCountdown(t.roomId)) =>
                  rooms'[t.roomId].state =
                      IF Len(rooms[t.roomId].players) >= 2 THEN "playing" ELSE "waiting" ]_vars
    /\ [][ \A k \in DOMAIN rooms' :
              (rooms'[k].state = "playing" /\ ~inPlaying(k)) =>
                  /\ inCountdown(k)
                  /\ Len(rooms'[k].players) >= 2
                  /\ \E t \in timers : t.roomId = k /\ CountdownTimeout(t) ]_vars

\* A countdown has elapsed: a room is playing and no timer is pending.
C10_Witness ==
    \E k \in DOMAIN rooms :
        /\ rooms[k].state = "playing"
        /\ Len(rooms[k].players) >= 2
        /\ timers = {}

\* ----- the tick's treatment of projectiles ------------------------------
\* The step is a tick that runs the projectile loop of room k.
ticked(k) ==
    /\ rooms[k].state = "playing"
    /\ Len(rooms[k].projectiles) > 0
    /\ Tick

flying(k) == { rooms[k].projectiles[i] : i \in 1..Len(rooms[k].projectiles) }

flyingAfter(k) == { rooms'[k].projectiles[i] : i \in 1..Len(rooms'[k].projectiles) }

\* The projectiles created by the step (ids are drawn from the counter).
born(k) == { q \in flyingAfter(k) : q.id >= nextProjectileId }

removed(k, p) == \A q \in flyingAfter(k) : q.id # p.id

destOf(p) == Cell(p.x + p.dx, p.y + p.dy)

opposite(p, q) ==
    /\ p.id # q.id
    /\ p.dx = -q.dx /\ p.dy = -q.dy
    /\ ~(p.dx = 0 /\ p.dy = 0)

\* p and q traverse the same unit segment in opposite directions.
crossing(p, q) ==
    opposite(p, q) /\ destOf(p) = Cell(q.x, q.y) /\ destOf(q) = Cell(p.x, p.y)

\* p and q head for the same cell from opposite sides.
converging(p, q) == opposite(p, q) /\ destOf(p) = destOf(q)

colliding(p, q) == crossing(p, q) \/ converging(p, q)

\* No third projectile heads for the destination of p or q or crosses
\* either of them.
onlyPair(k, p, q) ==
    \A r \in flying(k) :
        (r.id # p.id /\ r.id # q.id) =>
            /\ destOf(r) # destOf(p) /\ destOf(r) # destOf(q)
            /\ ~crossing(r, p) /\ ~crossing(r, q)

\* C3 (as stated): in a tick of a playing room, any two projectiles that
\* head for the same cell from opposite sides, or that traverse the same
\* unit segment in opposite directions, are both removed on that tick.
C3_AsStated ==
    [][ \A k \in DOMAIN rooms :
          ticked(k) =>
            \A p, q \in flying(k) :
                colliding(p, q) => (removed(k, p) /\ removed(k, q)) ]_vars

\* C3 (amended): opposite projectiles cancel one for one.  Of any two
\* projectiles that head for the same cell from opposite sides or traverse
\* the same unit segment in opposite directions, at least one is removed
\* on that tick, and both are when no third projectile heads for their
\* destinations or crosses them; a removed projectile is not advanced.
C3_PairwiseCancel ==
    [][ \A k \in DOMAIN rooms :
          ticked(k) =>
            \A p, q \in flying(k) :
                colliding(p, q) =>
                    /\ removed(k, p) \/ removed(k, q)
                    /\ onlyPair(k, p, q) => (removed(k, p) /\ removed(k, q)) ]_vars

\* Two projectiles in flight are about to cross, fired by a player who has
\* emptied the magazine.
C3_Witness ==
    \E k \in DOMAIN rooms :
        /\ rooms[k].state = "playing"
        /\ \E p, q \in flying(k) : crossing(p, q)
        /\ \E i \in 1..Len(rooms[k].players) : rooms[k].players[i].bulletsLoaded = 0

\* The cacti of room k that a projectile in flight heads for.
cactusAhead(k, p) ==
    { c \in 1..Len(rooms[k].cacti) :
        destOf(p) = Cell(rooms[k].cacti[c].x, rooms[k].cacti[c].y) }

\* The cell next to the cactus in direction d takes a burst projectile.
burstCell(cactus, d) ==
    LET sx == cactus.x + d.dx
        sy == cactus.y + d.dy
    IN  /\ sx >= 0 /\ sx < GRID_W /\ sy >= 0 /\ sy < GRID_H
        /\ Cell(sx, sy) \notin WALLS \cup REFLECT_WALLS
        /\ \A c \in 1..Len(CACTI_LAYOUT) : Cell(sx, sy) # Cell(CACTI_LAYOUT[c].x, CACTI_LAYOUT[c].y)

Cardinals == { [dx |-> 1, dy |-> 0], [dx |-> -1, dy |-> 0],
               [dx |-> 0, dy |-> 1], [dx |-> 0, dy |-> -1] }

\* The projectiles the step created next to the cactus, in direction d.
bornBeside(k, cactus, d) ==
    { q \in born(k) : q.x = cactus.x + d.dx /\ q.y = cactus.y + d.dy
                       /\ q.dx = d.dx /\ q.dy = d.dy }

\* The step created exactly the burst of the cactus: one projectile on each
\* neighbouring cell that takes one, flying away from the cactus.
fullBurst(k, cactus) ==
    /\ \A d \in Cardinals :
          Cardinality(bornBeside(k, cactus, d)) = IF burstCell(cactus, d) THEN 1 ELSE 0
    /\ \A q \in born(k) :
          (\E d \in Cardinals : q.x = cactus.x + d.dx /\ q.y = cactus.y + d.dy) =>
              \E d \in Cardinals : q \in bornBeside(k, cactus, d)

\* The step created no projectile next to the cactus.
noBurst(k, cactus) == \A d \in Cardinals : bornBeside(k, cactus, d) = {}

\* A used cactus stays used in every step that does not start a round.
usedUntilRestart ==
    \A k \in DOMAIN rooms :
        (k \in DOMAIN rooms' /\ rooms'[k].state # "countdown") =>
            \A c \in 1..Len(rooms[k].cacti) :
                rooms[k].cacti[c].used => rooms'[k].cacti[c].used

\* C4 (as stated): a projectile whose destination in a tick is an unused
\* cactus is removed, the cactus becomes used, and the tick creates exactly
\* the burst of that cactus; a used cactus stays used until a round starts.
C4_AsStated ==
    [][ /\ usedUntilRestart
        /\ \A k \in DOMAIN rooms :
              ticked(k) =>
                \A p \in flying(k) : \A c \in cactusAhead(k, p) :
                    ~rooms[k].cacti[c].used =>
                        /\ removed(k, p)
                        /\ rooms'[k].cacti[c].used
                        /\ fullBurst(k, rooms[k].cacti[c]) ]_vars

\* C4 (amended): a projectile whose destination in a tick is an unused
\* cactus is removed.  Unless the collision pass cancelled it against an
\* opposite projectile, the cactus becomes used and the tick creates exactly
\* the burst of that cactus (one projectile per neighbouring cell that is in
\* bounds and no wall, reflect wall or cactus); if the cactus stays unused
\* the tick creates nothing beside it.  A projectile heading for a used
\* cactus creates nothing, and a used cactus stays used until a round starts.
C4_CactusBurst ==
    [][ /\ usedUntilRestart
        /\ \A k \in DOMAIN rooms :
              ticked(k) =>
                \A p \in flying(k) : \A c \in cactusAhead(k, p) :
                    /\ removed(k, p)
                    /\ rooms[k].cacti[c].used => noBurst(k, rooms[k].cacti[c])
                    /\ ~rooms[k].cacti[c].used =>
                          /\ (\A q \in flying(k) : ~colliding(p, q)) => rooms'[k].cacti[c].used
                          /\ IF rooms'[k].cacti[c].used
                             THEN fullBurst(k, rooms[k].cacti[c])
                             ELSE noBurst(k, rooms[k].cacti[c]) ]_vars

\* A cactus has burst: it is used and the four projectiles of its burst fly.
C4_Witness ==
    \E k \in DOMAIN rooms :
        /\ rooms[k].state = "playing"
        /\ \E c \in 1..Len(rooms[k].cacti) :
              /\ rooms[k].cacti[c].used
              /\ \A d \in Cardinals :
                    \E q \in flying(k) :
                        /\ q.x = rooms[k].cacti[c].x + d.dx
                        /\ q.y = rooms[k].cacti[c].y + d.dy
                        /\ q.dx = d.dx /\ q.dy = d.dy

\* p is still in flight after the step, where it was, flying the other way.
bounced(k, p) ==
    \E q \in flyingAfter(k) :
        q.id = p.id /\ q.x = p.x /\ q.y = p.y /\ q.dx = -p.dx /\ q.dy = -p.dy

\* No projectile of room k is on a reflect wall or outside the grid after
\* the step.
clearOfReflectWalls(k) ==
    \A q \in flyingAfter(k) :
        inGrid(q.x, q.y) /\ Cell(q.x, q.y) \notin REFLECT_WALLS

\* C5 (as stated): a projectile whose destination in a tick is a reflect
\* wall stays in flight at its position with its direction negated, and no
\* projectile is on a reflect wall or outside the grid after the tick.
C5_AsStated ==
    [][ \A k \in DOMAIN rooms :
          ticked(k) =>
            /\ clearOfReflectWalls(k)
            /\ \A p \in flying(k) :
                  destOf(p) \in REFLECT_WALLS => bounced(k, p) ]_vars

\* C5 (amended): a projectile whose destination in a tick is a reflect wall
\* either stays in flight at its position with its direction negated, or is
\* removed because the collision pass cancelled it against an opposite
\* projectile heading for the same wall; without such a projectile it
\* bounces.  No projectile is on a reflect wall or outside the grid after
\* the tick.
C5_ReflectBounce ==
    [][ \A k \in DOMAIN rooms :
          ticked(k) =>
            /\ clearOfReflectWalls(k)
            /\ \A p \in flying(k) :
                  destOf(p) \in REFLECT_WALLS =>
                      \/ bounced(k, p)
                      \/ removed(k, p) /\ \E q \in flying(k) : converging(p, q) ]_vars

\* A projectile has bounced off the reflect wall at (5, 5): it is next to the
\* wall and flies away from it.
C5_Witness ==
    \E k \in DOMAIN rooms :
        /\ rooms[k].state = "playing"
        /\ \E q \in flying(k) :
              /\ Cell(q.x - q.dx, q.y - q.dy) \in REFLECT_WALLS
              /\ q.shooterId \in playerIds(rooms[k])

\* C6: a projectile whose destination in a tick is a solid wall or a used
\* cactus is removed, and the tick creates no projectile beside that wall
\* or cactus.
C6_WallAbsorbs ==
    [][ \A k \in DOMAIN rooms :
          ticked(k) =>
            \A p \in flying(k) :
                /\ destOf(p) \in WALLS =>
                      /\ removed(k, p)
                      /\ \A q \in born(k) : \A d \in Cardinals :
                            Cell(q.x - d.dx, q.y - d.dy) # destOf(p)
                /\ \A c \in cactusAhead(k, p) :
                      rooms[k].cacti[c].used =>
                          /\ removed(k, p)
                          /\ noBurst(k, rooms[k].cacti[c])
                          /\ rooms'[k].cacti[c].used ]_vars

\* The burst of the cactus at (14, 6) has set off the cactus at (25, 6), and
\* the projectile that one sent back along row 6 has reached the used cactus
\* and is gone, while the one it sent the other way still flies.
C6_Witness ==
    \E k \in DOMAIN rooms :
        /\ rooms[k].state = "playing"
        /\ rooms[k].cacti[1].used /\ rooms[k].cacti[2].used
        /\ \E q \in flying(k) : q.y = 6 /\ q.x > 25 /\ q.dx = 1
        /\ \A q \in flying(k) : ~(q.y = 6 /\ q.x > 14 /\ q.x < 25)

\* ------------------------------------------------------------------------
\* C11: under every interleaving of joins, start requests, disconnects, ticks
\* and timer callbacks a room has at most one pending callback of each kind
\* (countdown, restart), and a pending countdown callback belongs to a room
\* that still exists, holds the handle of that very callback (it is the room
\* instance that scheduled it) and is in the countdown state; a callback can
\* only fire while it is pending.
\* ------------------------------------------------------------------------
C11_TimersOwned ==
    /\ \A t, u \in timers : t.roomId = u.roomId /\ t.kind = u.kind => t = u
    /\ \A t \in timers :
          t.kind = "countdown" =>
              /\ roomExists(t.roomId)
              /\ rooms[t.roomId].countdownTimeout = t.id
              /\ rooms[t.roomId].state = "countdown"

\* A second countdown is pending after a connection has left.
C11_Witness ==
    /\ closed # {}
    /\ \E t \in timers : t.kind = "countdown" /\ t.id > 1

\* ------------------------------------------------------------------------
\* C12: a disconnect that leaves a room with exactly one player leaves it in
\* the waiting state, unless the room was in round_over before; and a room in
\* countdown or playing always has at least two players.
\* ------------------------------------------------------------------------
\* The step is the disconnect handler of socket s acting on room k.
disconnected(s, k) ==
    /\ s \notin closed
    /\ s \in closed'
    /\ socketRoom[s] = k
    /\ roomExists(k)

C12_ShortHandedRoomWaits ==
    /\ [](\A k \in DOMAIN rooms :
            rooms[k].state \in { "countdown", "playing" } => Len(rooms[k].players) >= 2)
    /\ [][\A s \in Sockets, k \in DOMAIN rooms :
            (/\ disconnected(s, k)
             /\ k \in DOMAIN rooms'
             /\ Len(rooms'[k].players) = 1
             /\ rooms[k].state # "round_over")
            => rooms'[k].state = "waiting"]_vars

\* A round was started and a connection has left since: its room has one
\* player and is back in waiting.
C12_Witness ==
    \E k \in DOMAIN rooms :
        /\ nextTimerId > 1
        /\ closed # {}
        /\ Len(rooms[k].players) = 1
        /\ rooms[k].state = "waiting"

\* ------------------------------------------------------------------------
\* C13: whenever the disconnecting player held host status and at least one
\* player remains, that disconnect leaves the room in the waiting state,
\* whatever state it was in before (waiting, countdown, playing, round_over).
\* ------------------------------------------------------------------------
C13_HostDisconnectForcesWaiting ==
    [][\A s \in Sockets, k \in DOMAIN rooms :
          (/\ disconnected(s, k)
           /\ rooms[k].hostId = s
           /\ k \in DOMAIN rooms'
           /\ Len(rooms'[k].players) >= 1)
          => rooms'[k].state = "waiting"]_vars

\* ------------------------------------------------------------------------
\* C14: at any time a connection has a player record in at most one room,
\* also when it sends join again for the same or for another room key, and
\* once it has disconnected no room holds a player record of it.
\* ------------------------------------------------------------------------
roomsOf(s) == { k \in DOMAIN rooms : s \in playerIds(rooms[k]) }

C14_OneRoomPerConnection ==
    \A s \in Sockets :
        /\ Cardinality(roomsOf(s)) <= 1
        /\ s \in closed => roomsOf(s) = {}

\* ------------------------------------------------------------------------
\* C15: between handler invocations no room exists without a player; a room
\* comes into existence only in a join step, with the joining connection as a
\* player; and the disconnect that removes a room's last player deletes the
\* room in that same step, with no timer of the room left pending.
\* ------------------------------------------------------------------------
C15_NoEmptyRoom ==
    /\ [](\A k \in DOMAIN rooms : Len(rooms[k].players) >= 1)
    /\ [][\A k \in DOMAIN rooms' \ DOMAIN rooms :
            \E s \in Sockets :
                /\ s \notin closed'
                /\ socketRoom'[s] = k
                /\ playerIds(rooms'[k]) = { s }
                /\ rooms'[k].hostId = s
                /\ \A o \in DOMAIN rooms : rooms'[o] = rooms[o]]_vars
    /\ [][\A s \in Sockets, k \in DOMAIN rooms :
            (disconnected(s, k) /\ playerIds(rooms[k]) = { s })
            => /\ k \notin DOMAIN rooms'
               /\ \A t \in timers' : t.roomId # k]_vars

\* A connection has disconnected and the room it was in is gone, while
\* another room is still there.
C15_Witness ==
    /\ rooms # << >>
    /\ \E s \in closed : socketRoom[s] # Null /\ ~roomExists(socketRoom[s])

\* ------------------------------------------------------------------------
\* C16: every existing room has a host who is one of its current players:
\* the first joiner becomes host, the host does not change while the host
\* stays in the room, and when the host disconnects the host status passes
\* to a remaining member.
\* ------------------------------------------------------------------------
\* The part that concerns the player records alone.
hostAmongRecords ==
    /\ [](\A k \in DOMAIN rooms : rooms[k].hostId \in playerIds(rooms[k]))
    /\ [][\A k \in DOMAIN rooms' :
            IF k \in DOMAIN rooms
            THEN rooms'[k].hostId # rooms[k].hostId => disconnected(rooms[k].hostId, k)
            ELSE rooms'[k].hostId = rooms'[k].players[1].id]_vars

C16_HostIsCurrentPlayer ==
    /\ hostAmongRecords
    /\ [][\A s \in Sockets, k \in DOMAIN rooms :
            (s \notin closed /\ s \in closed' /\ rooms[k].hostId = s /\ k \in DOMAIN rooms')
            => rooms'[k].hostId \in playerIds(rooms'[k]) \ { s }]_vars

\* ------------------------------------------------------------------------
\* C17: every player's ammunition count is an integer from 0 to 3; a reload
\* never lowers it (neither the reload of a tick nor the one a shoot runs
\* first), and no step, a shoot included, lowers it by more than one.
\* ------------------------------------------------------------------------
playersOf(k) == { rooms[k].players[i] : i \in 1..Len(rooms[k].players) }

playersAfter(k) == { rooms'[k].players[i] : i \in 1..Len(rooms'[k].players) }

C17_AmmoRange ==
    /\ [](\A k \in DOMAIN rooms : \A p \in playersOf(k) :
            /\ p.bulletsLoaded \in 0..MAX_BULLETS
            /\ reloadBullets(p, Now).player.bulletsLoaded \in p.bulletsLoaded..MAX_BULLETS)
    /\ [][\A k \in DOMAIN rooms \cap DOMAIN rooms' :
            \A p \in playersOf(k), q \in playersAfter(k) :
                p.id = q.id =>
                    /\ q.bulletsLoaded >= p.bulletsLoaded - 1
                    /\ q.bulletsLoaded < p.bulletsLoaded => ~Tick]_vars

\* Three projectile ids were drawn, one player has a full magazine and the
\* other a single round: a magazine was shot empty and reloaded once, or both
\* players shot and one was reloaded to the full.
C17_Witness ==
    \E k \in DOMAIN rooms : \E p, q \in playersOf(k) :
        /\ rooms[k].state = "playing"
        /\ nextProjectileId = 4
        /\ p.bulletsLoaded = 1
        /\ q.bulletsLoaded = MAX_BULLETS

\* ------------------------------------------------------------------------
\* C18: a move or shoot intent is a no-op when the sender's room is not in
\* the playing state, when the sender's health is 0, when the sender is not
\* a member of the room, or (move) when the direction is not one of the four
\* directions; and a shoot by a living player left with no ammunition after
\* the opportunistic reload creates no projectile and changes nobody's health
\* or ammunition count.
\* ------------------------------------------------------------------------
\* The player record of socket s in the room it last joined.
me(s) == rooms[socketRoom[s]].players[playerIndex(rooms[socketRoom[s]], s)]

\* One of the conditions under which an intent of socket s is to be ignored.
sidelined(s) ==
    \/ socketRoom[s] = Null
    \/ ~roomExists(socketRoom[s])
    \/ rooms[socketRoom[s]].state # "playing"
    \/ s \notin playerIds(rooms[socketRoom[s]])
    \/ me(s).hp = 0

outOfAmmo(s) == ~sidelined(s) /\ reloadBullets(me(s), Now).player.bulletsLoaded = 0

\* The health and the ammunition count of every player, in entry order.
vitals(room) ==
    [ i \in 1..Len(room.players) |->
        << room.players[i].id, room.players[i].hp, room.players[i].bulletsLoaded >> ]

C18_IgnoredIntents ==
    \A s \in Connected :
        /\ \A direction \in DirectionInputs :
              (sidelined(s) \/ direction \notin { "up", "down", "left", "right" })
              => moveOutcome(s, direction) = [ rooms |-> rooms, timers |-> timers ]
        /\ sidelined(s)
           => shootOutcome(s) = [ rooms |-> rooms, timers |-> timers,
                                  nextProjectileId |-> nextProjectileId ]
        /\ outOfAmmo(s)
           => LET k == socketRoom[s]
                  out == shootOutcome(s)
              IN  /\ out.nextProjectileId = nextProjectileId
                  /\ out.timers = timers
                  /\ DOMAIN out.rooms = DOMAIN rooms
                  /\ \A o \in DOMAIN rooms \ { k } : out.rooms[o] = rooms[o]
                  /\ out.rooms[k].projectiles = rooms[k].projectiles
                  /\ out.rooms[k].state = rooms[k].state
                  /\ vitals(out.rooms[k]) = vitals(rooms[k])

\* A round goes on between two players while the third is dead, and one of
\* the living has shot its magazine empty: the dead player's intents and the
\* shoot of the one without ammunition are the cases in point.
C18_Witness ==
    \E s, o \in Connected :
        /\ socketRoom[s] # Null /\ socketRoom[o] = socketRoom[s]
        /\ rooms[socketRoom[s]].state = "playing"
        /\ s \in playerIds(rooms[socketRoom[s]])
        /\ me(s).hp = 0
        /\ outOfAmmo(o)

\* ------------------------------------------------------------------------
\* C19: when a living player with ammunition shoots in a playing room and the
\* cell in front of the muzzle holds a living player, the handler lowers that
\* player's health by exactly one (never below 0), adds no projectile to the
\* room's list, and evaluates the end of the round before it returns.
\* ------------------------------------------------------------------------
\* The cell in front of the muzzle of socket s.
muzzle(s) ==
    Cell(me(s).x + facingToDelta(me(s).facing).dx,
         me(s).y + facingToDelta(me(s).facing).dy)

\* The entries of the living players of room k that stand on cell c.
livingOn(k, c) ==
    { i \in 1..Len(rooms[k].players) :
        /\ rooms[k].players[i].hp > 0
        /\ rooms[k].players[i].x = c.x
        /\ rooms[k].players[i].y = c.y }

pointBlank(s) ==
    /\ ~sidelined(s)
    /\ reloadBullets(me(s), Now).player.bulletsLoaded > 0
    /\ livingOn(socketRoom[s], muzzle(s)) # {}

C19_PointBlankHit ==
    \A s \in Connected :
        pointBlank(s) =>
            LET k == socketRoom[s]
                after == shootOutcome(s).rooms[k]
                alive == { i \in 1..Len(after.players) : after.players[i].hp > 0 }
            IN  /\ \E v \in livingOn(k, muzzle(s)) :
                      /\ after.players[v].hp = rooms[k].players[v].hp - 1
                      /\ after.players[v].hp >= 0
                      /\ \A i \in 1..Len(after.players) \ { v } :
                            after.players[i].hp = rooms[k].players[i].hp
                /\ \A i \in 1..Len(after.projectiles) :
                      \E j \in 1..Len(rooms[k].projectiles) :
                          after.projectiles[i] = rooms[k].projectiles[j]
                /\ after.state = IF Cardinality(alive) <= 1 THEN "round_over" ELSE "playing"
                /\ after.state = "round_over" =>
                      /\ after.projectiles = << >>
                      /\ \A i \in alive :
                            after.players[i].score = rooms[k].players[i].score + 1

\* The shooter stands at (16, 10) and the other player right below it, where
\* it can only have been spawned, one health point down: the one shot fired
\* so far hit it at the muzzle and left no projectile.
C19_Witness ==
    \E k \in DOMAIN rooms : \E i, v \in 1..Len(rooms[k].players) :
        /\ rooms[k].state = "playing"
        /\ nextProjectileId = 2
        /\ rooms[k].projectiles = << >>
        /\ rooms[k].players[i].x = 16 /\ rooms[k].players[i].y = 10
        /\ rooms[k].players[i].bulletsLoaded = MAX_BULLETS - 1
        /\ rooms[k].players[v].x = 16 /\ rooms[k].players[v].y = 11
        /\ rooms[k].players[v].hp = FULL_HP - 1

\* ------------------------------------------------------------------------
\* C20: projectile ids are unique across all rooms and strictly increasing
\* in creation order, whether the projectile comes from a shoot, from a
\* cactus burst or from a shot that hits at the muzzle; an id is never used
\* again.
\* ------------------------------------------------------------------------
\* The ids in the projectile list of room k, before and after the step.
idsOf(k) == { rooms[k].projectiles[i].id : i \in 1..Len(rooms[k].projectiles) }

idsAfter(k) == { rooms'[k].projectiles[i].id : i \in 1..Len(rooms'[k].projectiles) }

C20_ProjectileIds ==
    /\ [](\A k \in DOMAIN rooms :
            /\ \A i \in 1..Len(rooms[k].projectiles) :
                  /\ rooms[k].projectiles[i].id >= 1
                  /\ rooms[k].projectiles[i].id < nextProjectileId
                  /\ \A j \in 1..(i - 1) :
                        rooms[k].projectiles[j].id < rooms[k].projectiles[i].id
            /\ \A o \in DOMAIN rooms \ { k } : idsOf(k) \cap idsOf(o) = {})
    /\ [][/\ nextProjectileId' >= nextProjectileId
          /\ \A k \in DOMAIN rooms' :
                \A n \in idsAfter(k) :
                    \/ k \in DOMAIN rooms /\ n \in idsOf(k)
                    \/ n >= nextProjectileId /\ n < nextProjectileId']_vars

\* Both rooms hold the projectiles of a cactus burst, and an id drawn after
\* one of theirs is in neither list: that projectile is gone, or the shot hit
\* at the muzzle.
C20_Witness ==
    \E k, o \in DOMAIN rooms :
        /\ k # o
        /\ Len(rooms[k].projectiles) > 1
        /\ Len(rooms[o].projectiles) > 1
        /\ \E n \in 1..(nextProjectileId - 1) :
              /\ n \notin idsOf(k) \cup idsOf(o)
              /\ \E m \in idsOf(k) \cup idsOf(o) : m < n

\* ------------------------------------------------------------------------
\* C21: while a player remains a member of a room its score never decreases
\* and its colour never changes, whatever the step (join, round start,
\* countdown expiry, move, shoot, tick, disconnect); the only score change is
\* +1 for the single survivor when the room goes from playing to round_over.
\* ------------------------------------------------------------------------
C21_ScoreAndColourKept ==
    [][\A k \in DOMAIN rooms \cap DOMAIN rooms' :
          \A p \in playersOf(k), q \in playersAfter(k) :
              p.id = q.id =>
                  /\ q.color = p.color
                  /\ q.score >= p.score
                  /\ q.score # p.score =>
                        /\ q.score = p.score + 1
                        /\ rooms[k].state = "playing"
                        /\ rooms'[k].state = "round_over"
                        /\ q.hp > 0
                        /\ \A o \in playersAfter(k) : o.id # q.id => o.hp = 0]_vars

\* ------------------------------------------------------------------------
\* C22: player colours are unique per room while possible.  As stated: in
\* every reachable state a room with at most as many players as the palette
\* has colours has players of pairwise distinct colours, after any history
\* of joins and disconnects.
\* ------------------------------------------------------------------------
distinctColours(room) ==
    \A i, j \in 1..Len(room.players) :
        i # j => room.players[i].color # room.players[j].color

C22_AsStated ==
    \A k \in DOMAIN rooms :
        Len(rooms[k].players) <= Len(COLORS) => distinctColours(rooms[k])

\* C22, amended: a room is created with players of distinct colours, and a
\* step taken while the room holds fewer player records than the palette has
\* colours keeps the colours of its players pairwise distinct.  (Only a join
\* into a room that already holds eight records can double a colour, and the
\* double outlasts the players that leave.)
C22_DistinctUntilPaletteFull ==
    [][\A k \in DOMAIN rooms' :
          IF k \in DOMAIN rooms
          THEN (distinctColours(rooms[k]) /\ Len(rooms[k].players) < Len(COLORS))
               => distinctColours(rooms'[k])
          ELSE distinctColours(rooms'[k])]_vars

\* Eight players of eight colours share a room after a leaver has gone: the
\* palette is used up and every join so far found a free colour.
C22_Witness ==
    \E k \in DOMAIN rooms :
        /\ Len(rooms[k].players) = Len(COLORS)
        /\ distinctColours(rooms[k])
        /\ closed # {}

\* ------------------------------------------------------------------------
\* C23: in every reachable state the round state of every existing room is
\* exactly one of waiting, countdown, playing, round_over, and a room that
\* comes into existence starts in waiting.
\* ------------------------------------------------------------------------
RoundStates == { "waiting", "countdown", "playing", "round_over" }

C23_RoundStateDomain ==
    /\ [](\A k \in DOMAIN rooms : rooms[k].state \in RoundStates)
    /\ [][\A k \in DOMAIN rooms' \ DOMAIN rooms : rooms'[k].state = "waiting"]_vars

\* A second room has just been created by its first player while a round is
\* being played in another room.
C23_Witness ==
    \E k, o \in DOMAIN rooms :
        /\ k # o
        /\ rooms[k].state = "playing"
        /\ rooms[o].state = "waiting"
        /\ Len(rooms[o].players) = 1

\* ------------------------------------------------------------------------
\* C24: from the moment a room enters round_over until the next round start
\* no simulation acts on it: no player's health, position or ammunition and
\* no cactus's used flag changes, the remainder of the tick in which a hit
\* ended the round included.
\* ------------------------------------------------------------------------
\* The per-projectile loop cut short at the iteration that ends the round:
\* what the room is at the moment it enters round_over.
RECURSIVE resolveUntilOver(_, _, _, _)
resolveUntilOver(acc, ext, toRemove, i) ==
    IF i > Len(ext) \/ acc.room.state # "playing" THEN acc
    ELSE resolveUntilOver(stepProjectile(acc, ext[i], toRemove), ext, toRemove, i + 1)

atRoundEnd(room) ==
    LET reloaded == reloadRoom(ageRoom(room))
        ext == extend(reloaded.projectiles)
    IN  resolveUntilOver([room |-> reloaded, remaining |-> << >>,
                          spawned |-> << >>, nextId |-> nextProjectileId,
                          cleared |-> {}],
                         ext, collisions(ext), 1).room

\* What the simulation acts on: every player's health, position and
\* ammunition, and every cactus's used flag.
simulated(room) ==
    << [ i \in 1..Len(room.players) |->
           << room.players[i].id, room.players[i].hp, room.players[i].x,
              room.players[i].y, room.players[i].bulletsLoaded >> ],
       [ i \in 1..Len(room.cacti) |-> room.cacti[i].used ] >>

C24_RoundOverIsFrozen ==
    /\ [](\A k \in DOMAIN rooms :
            (rooms[k].state = "playing" /\ atRoundEnd(rooms[k]).state = "round_over")
            => simulated(tickRoom(ageRoom(rooms[k]), nextProjectileId).room)
               = simulated(atRoundEnd(rooms[k])))
    /\ [][Tick => \A k \in DOMAIN rooms :
            rooms[k].state = "round_over" => simulated(rooms'[k]) = simulated(rooms[k])]_vars

\* ------------------------------------------------------------------------
\* C25: between handler invocations a room in the playing state always has
\* at least two players with health > 0; so every step from playing to
\* round_over finds exactly one survivor and credits it, and a round never
\* ends without a winner, even when two players at health 1 are both hit in
\* the same tick.
\* ------------------------------------------------------------------------
C25_TwoAliveWhilePlaying ==
    /\ [](\A k \in DOMAIN rooms :
            rooms[k].state = "playing" => Cardinality(aliveOf(rooms[k])) >= 2)
    /\ [][\A k \in DOMAIN rooms :
            (rooms[k].state = "playing" /\ k \in DOMAIN rooms'
               /\ rooms'[k].state = "round_over")
            => samePlayers(k) /\ oneWinner(k)]_vars

\* Two players at health 1 were both hit in one tick: the round is over,
\* nobody is alive, and one of the two holds the point of the round.
C25_Witness ==
    \E k \in DOMAIN rooms :
        /\ rooms[k].state = "round_over"
        /\ Len(rooms[k].players) = 2
        /\ aliveOf(rooms[k]) = {}
        /\ \E i, j \in 1..2 :
              rooms[k].players[i].score = 1 /\ rooms[k].players[j].score = 0

\* ------------------------------------------------------------------------
\* C26: a projectile cancelled by crossing-pair or same-destination
\* cancellation in a tick has no other effect in that tick: it hurts no
\* player standing on its destination, uses no cactus, spawns nothing and
\* triggers no round-end evaluation.  Stated over every reachable playing
\* room: the tick leaves the room exactly as it would were the cancelled
\* projectiles not in the list at all.
\* ------------------------------------------------------------------------
cancelledIn(room) == collisions(extend(room.projectiles))

withoutCancelled(room) ==
    [room EXCEPT !.projectiles =
        SelectSeq(@, LAMBDA p : p.id \notin cancelledIn(room))]

C26_CancelledHasNoEffect ==
    \A k \in DOMAIN rooms :
        rooms[k].state = "playing"
        => tickRoom(ageRoom(rooms[k]), nextProjectileId)
           = tickRoom(ageRoom(withoutCancelled(rooms[k])), nextProjectileId)

\* The coming tick cancels a projectile whose destination cell holds a
\* living player or an unused cactus.
C26_Witness ==
    \E k \in DOMAIN rooms :
        /\ rooms[k].state = "playing"
        /\ \E i \in 1..Len(rooms[k].projectiles) :
              LET p == rooms[k].projectiles[i]
                  cactus == getCactusAt(rooms[k], p.x + p.dx, p.y + p.dy)
              IN  /\ p.id \in cancelledIn(rooms[k])
                  /\ \/ firstHit(rooms[k], p.x + p.dx, p.y + p.dy) # 0
                     \/ cactus # 0 /\ ~rooms[k].cacti[cactus].used

\* ------------------------------------------------------------------------
\* C27: the cancellation of a tick does not depend on the order of the
\* room's projectile list: for every permutation of the list the same number
\* of projectiles is cancelled at each (position, direction), so the
\* survivors are the same multiset of (position, direction); and within one
\* (position, direction) the projectiles cancelled are the earliest in list
\* order.  Stated over the projectile list of every reachable playing room.
\* ------------------------------------------------------------------------
permutationsOf(n) ==
    { f \in [1..n -> 1..n] : \A i, j \in 1..n : i # j => f[i] # f[j] }

permuted(list, f) == [ i \in 1..Len(list) |-> list[f[i]] ]

flight(p) == << p.x, p.y, p.dx, p.dy >>

\* How many projectiles of the list with the given position and direction
\* survive the two collision passes.
surviving(list, c) ==
    Cardinality({ i \in 1..Len(list) :
                    flight(list[i]) = c /\ list[i].id \notin collisions(extend(list)) })

earliestCancelled(list) ==
    \A i, j \in 1..Len(list) :
        ( /\ i < j
          /\ flight(list[i]) = flight(list[j])
          /\ list[j].id \in collisions(extend(list)) )
        => list[i].id \in collisions(extend(list))

C27_CancellationIgnoresOrder ==
    \A k \in DOMAIN rooms :
        rooms[k].state = "playing"
        => LET list == rooms[k].projectiles
           IN  \A f \in permutationsOf(Len(list)) :
                 /\ \A i \in 1..Len(list) :
                       surviving(permuted(list, f), flight(list[i]))
                         = surviving(list, flight(list[i]))
                 /\ earliestCancelled(permuted(list, f))

\* Two projectiles of one position and direction of which the coming tick
\* cancels one only: the list order decides which.
C27_Witness ==
    \E k \in DOMAIN rooms :
        /\ rooms[k].state = "playing"
        /\ \E i, j \in 1..Len(rooms[k].projectiles) :
              LET list == rooms[k].projectiles
              IN  /\ i < j
                  /\ flight(list[i]) = flight(list[j])
                  /\ list[i].id \in collisions(extend(list))
                  /\ list[j].id \notin collisions(extend(list))

\* ------------------------------------------------------------------------
\* C28: a reload at time now of a player with ammunition a and anchor t:
\* with a = 3 the anchor becomes now and a stays; with a < 3 and
\* k = floor((now - t) / 1000) = 0 nothing changes; with a < 3 and k >= 1
\* the ammunition becomes min(3, a + k) and the anchor advances by exactly
\* (new ammunition - a) * 1000, so that while the result is below 3 the
\* remaining now - anchor is below 1000 and equals (now - t) mod 1000.
\* Stated for every player of every reachable room, with the stored anchor
\* read as a timestamp (Epoch + the model's relative time) and the reload
\* taking place any of ReloadDelays milliseconds after the present instant.
\* ------------------------------------------------------------------------
\* Date.now() at the model's instant Now, in milliseconds.
Epoch == 1000000

\* How long after Now the reload runs: at once, or after the event loop was
\* held up.
ReloadDelays == { 0, 500, 1000, 1860, 3000 }

\* The player with its anchor as the timestamp the server stores.
stamped(player) == [player EXCEPT !.lastReloadTime = Epoch + @]

reloadAsStated(player, now) ==
    LET a == player.bulletsLoaded
        t == player.lastReloadTime
        k == (now - t) \div BULLET_RELOAD_MS
        out == reloadBullets(player, now).player
    IN  /\ a = MAX_BULLETS =>
              out.bulletsLoaded = a /\ out.lastReloadTime = now
        /\ (a < MAX_BULLETS /\ k = 0) => out = player
        /\ (a < MAX_BULLETS /\ k >= 1) =>
              /\ out.bulletsLoaded = Min(MAX_BULLETS, a + k)
              /\ out.lastReloadTime = t + (out.bulletsLoaded - a) * BULLET_RELOAD_MS
              /\ out.bulletsLoaded < MAX_BULLETS =>
                    /\ now - out.lastReloadTime < BULLET_RELOAD_MS
                    /\ now - out.lastReloadTime = (now - t) % BULLET_RELOAD_MS

C28_ReloadNumerics ==
    \A k \in DOMAIN rooms :
        \A i \in 1..Len(rooms[k].players), d \in ReloadDelays :
            reloadAsStated(stamped(rooms[k].players[i]), Epoch + d)

\* A player short of two rounds or more whose reload, run late, grants one
\* round and keeps a fraction of an interval as progress.
C28_Witness ==
    \E k \in DOMAIN rooms :
        \E i \in 1..Len(rooms[k].players), d \in ReloadDelays :
            LET player == stamped(rooms[k].players[i])
                out == reloadBullets(player, Epoch + d).player
            IN  /\ out.bulletsLoaded = player.bulletsLoaded + 1
                /\ out.bulletsLoaded < MAX_BULLETS
                /\ Epoch + d - out.lastReloadTime > 0

\* ------------------------------------------------------------------------
\* C29: in a room that stays in the playing state, with the ticks running
\* and no further shots, every projectile in flight is eventually removed,
\* so the room's projectile list eventually becomes empty.  Stated over
\* every reachable playing room with the ticks run from there on and no
\* other event: the list is empty, or the room no longer playing, after
\* MaxFlight ticks at the latest.
\* ------------------------------------------------------------------------
\* More ticks than a projectile needs to cross the grid and come back.
MaxFlight == 2 * (GRID_W + GRID_H)

\* The room after one more run of the tick's loop body.
ticked1(room) == tickRoom(ageRoom(room), nextProjectileId).room

\* The room after n more ticks and no other event.
RECURSIVE afterTicks(_, _)
afterTicks(room, n) ==
    IF n = 0 THEN room
    ELSE IF n = 1 THEN ticked1(room)
    ELSE CHOOSE r \in { afterTicks(m, n - (n \div 2)) :
                           m \in { afterTicks(room, n \div 2) } } : TRUE

\* With nothing but ticks, the room has stopped playing or its list is empty
\* after n ticks (and then stays so).
landsWithin(room, n) ==
    \A end \in { afterTicks(room, n) } :
        end.state # "playing" \/ Len(end.projectiles) = 0

C29_AsStated ==
    \A k \in DOMAIN rooms : landsWithin(rooms[k], MaxFlight)

\* The lanes between two reflect walls that face each other: a projectile
\* travelling along one is turned back at either end.
onLane(p) ==
    \E a, b \in REFLECT_WALLS :
        \/ /\ p.dx = 0 /\ a.x = p.x /\ b.x = p.x /\ a.y < p.y /\ p.y < b.y
        \/ /\ p.dy = 0 /\ a.y = p.y /\ b.y = p.y /\ a.x < p.x /\ p.x < b.x

\* With nothing but ticks, the room has stopped playing or projectile id
\* has left its list after n ticks (an id never comes back).
goneWithin(room, id, n) ==
    \A end \in { afterTicks(room, n) } :
        \/ end.state # "playing"
        \/ \A i \in 1..Len(end.projectiles) : end.projectiles[i].id # id

\* C29, amended: with the ticks running and no other event, every
\* projectile in flight in a playing room that does not travel along a lane
\* between two facing reflect walls is removed within MaxFlight ticks, or the
\* room leaves the playing state.
C29_OffLaneEphemeral ==
    \A k \in DOMAIN rooms :
        \A i \in 1..Len(rooms[k].projectiles) :
            ~onLane(rooms[k].projectiles[i])
            => goneWithin(rooms[k], rooms[k].projectiles[i].id, MaxFlight)

\* A projectile off the lanes has been carried away from its muzzle cell by
\* the ticks and is still in flight, next to one that travels along a lane.
C29_Witness ==
    \E k \in DOMAIN rooms :
        /\ rooms[k].state = "playing"
        /\ \E i, l \in 1..Len(rooms[k].projectiles) :
              LET p == rooms[k].projectiles[i]
              IN  /\ ~onLane(p)
                  /\ onLane(rooms[k].projectiles[l])
                  /\ \A j \in 1..Len(rooms[k].players) :
                        (rooms[k].players[j].x - p.x) * (rooms[k].players[j].x - p.x)
                          + (rooms[k].players[j].y - p.y) * (rooms[k].players[j].y - p.y) > 4

\* ------------------------------------------------------------------------
\* C30: in every reachable state every projectile of a room's list is on a
\* cell inside the grid that is not a wall, a reflect wall or a cactus cell,
\* flies in one of the four cardinal directions, and exists only while the
\* room is playing: a room in waiting or countdown has an empty list.
\* ------------------------------------------------------------------------
wellFormed(room, p) ==
    /\ inGrid(p.x, p.y)
    /\ ~isWall(p.x, p.y)
    /\ ~isReflectWall(p.x, p.y)
    /\ ~isCactusPos(room, p.x, p.y)
    /\ << p.dx, p.dy >> \in { << 1, 0 >>, << -1, 0 >>, << 0, 1 >>, << 0, -1 >> }

GRID_SIZE == 16
MAX_PLAYERS_PER_ROOM == 2

WALLS_Auto ==
    { Cell(7, 6), Cell(7, 7), Cell(7, 8), Cell(6, 7), Cell(8, 7),
      Cell(2, 2), Cell(3, 2), Cell(4, 2), Cell(2, 3), Cell(4, 3),
      Cell(2, 4), Cell(3, 4), Cell(4, 4),
      Cell(12, 4), Cell(12, 5), Cell(12, 6), Cell(12, 7),
      Cell(5, 12), Cell(6, 12), Cell(7, 12) }

\* The environment of the runs of the earlier server: spawn draws on three
\* cells of the left column and walks onto the lowest of them.
AutoSpawn == { Cell(0, 12), Cell(0, 13), Cell(0, 14) }
AutoWalk == { Cell(0, 14) }
AutoShots == 5

inGridAuto(x, y) == x >= 0 /\ x < GRID_SIZE /\ y >= 0 /\ y < GRID_SIZE

isWallAuto(x, y) == Cell(x, y) \in WALLS_Auto

isBlockedAuto(room, x, y, ignoreId) ==
    \/ ~inGridAuto(x, y)
    \/ isWallAuto(x, y)
    \/ \E i \in 1..Len(room.players) :
         /\ room.players[i].id # ignoreId
         /\ room.players[i].hp > 0
         /\ room.players[i].x = x
         /\ room.players[i].y = y

\* getRandomSpawn(roomId): the draws that land in area, or (0, 0) when no
\* cell of the grid is free.
getRandomSpawnAuto(room, area) ==
    IF \A gx \in 0..(GRID_SIZE - 1), gy \in 0..(GRID_SIZE - 1) :
          isBlockedAuto(room, gx, gy, Null)
    THEN { Cell(0, 0) }
    ELSE { c \in area : ~isBlockedAuto(room, c.x, c.y, Null) }

\* The room ensureRoom creates.
ensureRoomAuto ==
    [ players |-> << >>, projectiles |-> << >>, state |-> "waiting",
      countdownTimeout |-> NoTimer, restartTimeout |-> NoTimer ]

RECURSIVE respawnPlayersAuto(_, _, _)
respawnPlayersAuto(room, i, area) ==
    IF i > Len(room.players)
    THEN { room }
    ELSE UNION {
           respawnPlayersAuto(
               [room EXCEPT !.players[i] =
                   [@ EXCEPT !.x = spawn.x, !.y = spawn.y, !.hp = FULL_HP,
                             !.facing = "down", !.bulletsLoaded = MAX_BULLETS,
                             !.lastReloadTime = Now]],
               i + 1, area)
           : spawn \in getRandomSpawnAuto(room, area) }

\* startRound(roomId): the rooms it may leave behind.  handle is the timer
\* handle setTimeout returns when the countdown is scheduled.
startRoundAuto(room, handle, area) ==
    LET r0 == clearProjectiles(clearRoomTimers(room))
    IN  IF Len(r0.players) < 2
        THEN { [r0 EXCEPT !.state = "waiting"] }
        ELSE { [r EXCEPT !.state = "countdown", !.countdownTimeout = handle]
               : r \in respawnPlayersAuto(r0, 1, area) }

\* A round end that schedules no restart: a variant used to test the
\* strength of the properties.
handleRoundEndAutoNoRestart(room, handle) ==
    LET alive == { i \in 1..Len(room.players) : room.players[i].hp > 0 }
    IN  IF room.state # "playing" \/ Cardinality(alive) > 1
        THEN room
        ELSE LET over == clearProjectiles(clearRoomTimers([room EXCEPT !.state = "round_over"]))
             IN  IF Cardinality(alive) = 1
                 THEN [over EXCEPT !.players[CHOOSE i \in alive : TRUE].score = @ + 1]
                 ELSE over

\* handleRoundEndIfNeeded(roomId) on an existing room.  handle is the timer
\* handle setTimeout returns when the restart is scheduled.
handleRoundEndAuto(room, handle) ==
    LET alive == { i \in 1..Len(room.players) : room.players[i].hp > 0 }
    IN  IF room.state # "playing" \/ Cardinality(alive) > 1
        THEN room
        ELSE LET over == clearProjectiles(clearRoomTimers([room EXCEPT !.state = "round_over"]))
                 scored == IF Cardinality(alive) = 1
                           THEN [over EXCEPT !.players[CHOOSE i \in alive : TRUE].score = @ + 1]
                           ELSE over
             IN  [scored EXCEPT !.restartTimeout = handle]

\* A timer set as setTimeout returns it: handle is its identity, kind tells
\* the callback it runs.
timerOf(handle, roomId, kind) == [ id |-> handle, roomId |-> roomId, kind |-> kind ]

\* The pending timers after a handler changed room roomId from before to
\* after, clearing the handles before held and setting the ones after holds.
timersAfter(pending, roomId, before, after) ==
    { t \in pending : t.id \notin heldTimers(before) }
    \cup (IF after.countdownTimeout # NoTimer
          THEN { timerOf(after.countdownTimeout, roomId, "countdown") } ELSE {})
    \cup (IF after.restartTimeout # NoTimer
          THEN { timerOf(after.restartTimeout, roomId, "restart") } ELSE {})

\* socket.on("joinRoom") of the earlier server.  The joiner's spawn is drawn
\* in own, the spawns of the round the join starts in area.
JoinRoomAuto(s, key, own, area) ==
    /\ s \notin closed
    /\ LET roomId == normalizeRoomId(key)
           existed == roomExists(roomId)
           room == IF existed THEN rooms[roomId] ELSE ensureRoomAuto
       IN  IF Len(room.players) >= MAX_PLAYERS_PER_ROOM
           THEN UNCHANGED << rooms, roomKeys, socketRoom, timers, nextTimerId >>
           ELSE \E spawn \in getRandomSpawnAuto(room, own), color \in getColorForPlayer(room) :
                  LET player == [ id |-> s, x |-> spawn.x, y |-> spawn.y, color |-> color,
                                  hp |-> FULL_HP, facing |-> "down", score |-> 0,
                                  bulletsLoaded |-> MAX_BULLETS, lastReloadTime |-> Now ]
                      joined == [room EXCEPT !.players = setPlayer(@, player)]
                  IN  /\ roomKeys' = IF existed THEN roomKeys ELSE Append(roomKeys, roomId)
                      /\ socketRoom' = [socketRoom EXCEPT ![s] = roomId]
                      /\ IF Len(joined.players) = 2
                         THEN \E started \in startRoundAuto(joined, nextTimerId, area) :
                                /\ rooms' = putRoom(roomId, started)
                                /\ timers' = timersAfter(timers, roomId, joined, started)
                                /\ nextTimerId' = nextTimerId + 1
                         ELSE /\ rooms' = putRoom(roomId, joined)
                              /\ UNCHANGED << timers, nextTimerId >>
    /\ UNCHANGED << closed, nextProjectileId >>

\* The callback handleRoundEndIfNeeded hands to setTimeout(..., 2000)
RestartTimeout(t, area) ==
    /\ t \in timers
    /\ t.kind = "restart"
    /\ IF roomExists(t.roomId)
       THEN LET room == [rooms[t.roomId] EXCEPT !.restartTimeout = NoTimer]
            IN  \E started \in startRoundAuto(room, nextTimerId, area) :
                  /\ rooms' = putRoom(t.roomId, started)
                  /\ timers' = timersAfter(timers \ { t }, t.roomId, room, started)
                  /\ nextTimerId' = IF started.countdownTimeout # NoTimer
                                    THEN nextTimerId + 1 ELSE nextTimerId
       ELSE /\ timers' = timers \ { t }
            /\ UNCHANGED << rooms, nextTimerId >>
    /\ UNCHANGED << roomKeys, socketRoom, closed, nextProjectileId >>

\* socket.on("move") of the earlier server
moveAcceptedAuto(s, direction) ==
    /\ socketRoom[s] # Null
    /\ roomExists(socketRoom[s])
    /\ rooms[socketRoom[s]].state = "playing"
    /\ s \in playerIds(rooms[socketRoom[s]])
    /\ rooms[socketRoom[s]].players[playerIndex(rooms[socketRoom[s]], s)].hp > 0
    /\ direction \in { "up", "down", "left", "right" }

movePlayerAuto(room, s, direction) ==
    LET i == playerIndex(room, s)
        player == room.players[i]
        d == directionDelta(direction)
        toX == player.x + d.dx
        toY == player.y + d.dy
        turned == [room EXCEPT !.players[i].facing = facingFromDelta(d.dx, d.dy, player.facing)]
    IN  IF isBlockedAuto(turned, toX, toY, s)
        THEN turned
        ELSE [turned EXCEPT !.players[i].x = toX, !.players[i].y = toY]

MoveAuto(s, direction) ==
    /\ s \notin closed
    /\ rooms' = IF moveAcceptedAuto(s, direction)
                THEN putRoom(socketRoom[s], movePlayerAuto(rooms[socketRoom[s]], s, direction))
                ELSE rooms
    /\ UNCHANGED << roomKeys, socketRoom, closed, timers, nextTimerId, nextProjectileId >>

\* socket.on("shoot") of the earlier server: the room after an accepted shoot
\* of player s, and whether a projectile id was drawn.  id is the value of
\* nextProjectileId, handle the timer handle of a restart it schedules.
shootAuto(room, s, id, handle) ==
    LET i == playerIndex(room, s)
        shooter == reloadBullets(room.players[i], Now).player
        reloaded == [room EXCEPT !.players[i] = shooter]
    IN  IF shooter.bulletsLoaded <= 0
        THEN [room |-> reloaded, drew |-> FALSE]
        ELSE
          LET fired == [reloaded EXCEPT !.players[i].bulletsLoaded =
                                           Max(0, shooter.bulletsLoaded - 1)]
              d == facingToDelta(shooter.facing)
              startX == shooter.x + d.dx
              startY == shooter.y + d.dy
              hit == firstHit(fired, startX, startY)
          IN  IF d.dx = 0 /\ d.dy = 0
              THEN [room |-> fired, drew |-> FALSE]
              ELSE IF ~inGridAuto(startX, startY) \/ isWallAuto(startX, startY)
              THEN [room |-> fired, drew |-> FALSE]
              ELSE IF hit # 0
              THEN [room |-> handleRoundEndAuto(
                                [fired EXCEPT !.players[hit].hp = Max(0, @ - 1)], handle),
                    drew |-> TRUE]
              ELSE [room |-> [fired EXCEPT !.projectiles =
                                  Append(@, [id |-> id, x |-> startX, y |-> startY,
                                             dx |-> d.dx, dy |-> d.dy, shooterId |-> s])],
                    drew |-> TRUE]

ShootAuto(s) ==
    /\ s \notin closed
    /\ IF shootAccepted(s)
       THEN LET roomId == socketRoom[s]
                room == rooms[roomId]
                out == shootAuto(room, s, nextProjectileId, nextTimerId)
            IN  /\ rooms' = putRoom(roomId, out.room)
                /\ timers' = IF out.room.state # room.state
                             THEN timersAfter(timers, roomId, room, out.room)
                             ELSE timers
                /\ nextTimerId' = IF out.room.state # room.state
                                  THEN nextTimerId + 1 ELSE nextTimerId
                /\ nextProjectileId' = IF out.drew THEN nextProjectileId + 1
                                       ELSE nextProjectileId
       ELSE UNCHANGED << rooms, timers, nextTimerId, nextProjectileId >>
    /\ UNCHANGED << roomKeys, socketRoom, closed >>

\* socket.on("disconnect") of the earlier server: the room after socket s
\* left it (before it is deleted when empty).
disconnectAuto(room, s) ==
    LET left == [room EXCEPT !.players = deletePlayer(@, s)]
        cleared == clearProjectiles(clearRoomTimers(left))
    IN  IF Len(cleared.players) > 0
        THEN [cleared EXCEPT !.state = "waiting"]
        ELSE cleared

DisconnectAuto(s) ==
    /\ s \notin closed
    /\ closed' = closed \cup { s }
    /\ IF socketRoom[s] # Null /\ roomExists(socketRoom[s])
       THEN LET roomId == socketRoom[s]
                room == rooms[roomId]
                after == disconnectAuto(room, s)
            IN  /\ timers' = timersAfter(timers, roomId, room, after)
                /\ IF Len(after.players) = 0
                   THEN /\ rooms' = deleteRoom(roomId)
                        /\ roomKeys' = removeKey(roomKeys, roomId)
                   ELSE /\ rooms' = putRoom(roomId, after)
                        /\ roomKeys' = roomKeys
       ELSE UNCHANGED << rooms, roomKeys, timers >>
    /\ UNCHANGED << socketRoom, nextTimerId, nextProjectileId >>

\* One iteration of the per-projectile loop of the earlier server's tick.
\* acc carries the room and the remaining list.
stepProjectileAuto(acc, proj, handle) ==
    LET nx == proj.x + proj.dx
        ny == proj.y + proj.dy
        hit == firstHit(acc.room, nx, ny)
    IN  IF ~inGridAuto(nx, ny) \/ isWallAuto(nx, ny) THEN acc
        ELSE IF hit # 0
        THEN [acc EXCEPT !.room = handleRoundEndAuto(
                                      [acc.room EXCEPT !.players[hit].hp = Max(0, @ - 1)],
                                      handle)]
        ELSE [acc EXCEPT !.remaining = Append(@, [proj EXCEPT !.x = nx, !.y = ny])]

RECURSIVE resolveAuto(_, _, _, _)
resolveAuto(acc, projs, handle, i) ==
    IF i > Len(projs) THEN acc
    ELSE resolveAuto(stepProjectileAuto(acc, projs[i], handle), projs, handle, i + 1)

\* The body of the tick's loop for one room.
tickRoomAuto(room, handle) ==
    LET reloaded == reloadRoom(room)
    IN  IF reloaded.state # "playing" \/ Len(reloaded.projectiles) = 0
        THEN reloaded
        ELSE LET done == resolveAuto([room |-> reloaded, remaining |-> << >>],
                                     reloaded.projectiles, handle, 1)
             IN  [done.room EXCEPT !.projectiles = done.remaining]

\* The tick's loop over Object.entries(rooms) from entry k on.  acc carries
\* the registry, the pending timers and the next timer handle.
RECURSIVE tickRoomsAuto(_, _)
tickRoomsAuto(acc, k) ==
    IF k > Len(roomKeys) THEN acc
    ELSE LET roomId == roomKeys[k]
             room == ageRoom(acc.rooms[roomId])
             after == tickRoomAuto(room, acc.nextTimerId)
             ended == after.state # room.state
         IN  tickRoomsAuto(
                 [ rooms |-> [acc.rooms EXCEPT ![roomId] = after],
                   timers |-> IF ended
                              THEN timersAfter(acc.timers, roomId, room, after)
                              ELSE acc.timers,
                   nextTimerId |-> IF ended THEN acc.nextTimerId + 1
                                   ELSE acc.nextTimerId ],
                 k + 1)

TickAuto ==
    LET out == tickRoomsAuto([ rooms |-> rooms, timers |-> timers,
                               nextTimerId |-> nextTimerId ], 1)
    IN  /\ rooms' = out.rooms
        /\ timers' = out.timers
        /\ nextTimerId' = out.nextTimerId
        /\ UNCHANGED << roomKeys, socketRoom, closed, nextProjectileId >>

\* The move intents the environment sends to the earlier server: every
\* intent the handler ignores, and of those it accepts the ones that steer
\* the player onto a cell of walk or against an obstacle.
moveOfferedAuto(s, direction, walk) ==
    moveAcceptedAuto(s, direction) =>
        LET room == rooms[socketRoom[s]]
            player == room.players[playerIndex(room, s)]
            d == directionDelta(direction)
        IN  \/ Cell(player.x + d.dx, player.y + d.dy) \in walk
            \/ isBlockedAuto(room, player.x + d.dx, player.y + d.dy, s)

\* The cell the spawn draw of a join yields in the runs of the earlier
\* server: the first cell of area, in row-major order, that is free in the
\* room joined.
firstFreeAuto(roomId, area) ==
    LET room == IF roomExists(roomId) THEN rooms[roomId] ELSE ensureRoomAuto
        free == { c \in area : ~isBlockedAuto(room, c.x, c.y, Null) }
    IN  { c \in free : \A o \in free : c.y < o.y \/ (c.y = o.y /\ c.x <= o.x) }

\* Two connections and two rooms of the earlier server: s1 may send join at
\* any time and for any key, s2 joins once; s1 shoots, s2 walks.
NextAuto ==
    \/ \E s \in Duelists, key \in LobbyKeys :
          /\ s \in Rovers \/ socketRoom[s] = Null
          /\ JoinRoomAuto(s, key, firstFreeAuto(normalizeRoomId(key), AutoSpawn), AutoSpawn)
    \/ \E t \in timers : CountdownTimeout(t)
    \/ \E t \in timers : RestartTimeout(t, AutoSpawn)
    \/ \E s \in Walkers, direction \in DirectionInputs :
          moveOfferedAuto(s, direction, AutoWalk) /\ MoveAuto(s, direction)
    \/ \E s \in Shooters : nextProjectileId <= AutoShots /\ ShootAuto(s)
    \/ \E s \in Duelists : DisconnectAuto(s)
    \/ TickAuto

SpecAuto == Init /\ [][NextAuto]_vars

AutoRoomIds == { normalizeRoomId(key) : key \in LobbyKeys }

\* The timer callbacks run once their delay has passed.
FairAuto ==
    /\ SpecAuto
    /\ \A k \in AutoRoomIds :
         /\ WF_vars(\E t \in timers : t.roomId = k /\ RestartTimeout(t, AutoSpawn))
         /\ WF_vars(\E t \in timers : t.roomId = k /\ CountdownTimeout(t))

inRoundOver(k) == k \in DOMAIN rooms /\ rooms[k].state = "round_over"

restartTimers(k) == { t \in timers : t.roomId = k /\ t.kind = "restart" }

\* A restart timer is pending for a room exactly while the room is in
\* round_over: it is the one the room holds, and no room that is gone has
\* a timer left.
restartPendingIffRoundOver ==
    /\ \A t \in timers : roomExists(t.roomId)
    /\ \A k \in DOMAIN rooms :
         /\ Cardinality(restartTimers(k)) <= 1
         /\ inRoundOver(k) <=> restartTimers(k) # {}
         /\ \A t \in restartTimers(k) : rooms[k].restartTimeout = t.id
         /\ rooms[k].state \in { "countdown", "playing", "round_over" }
               => Len(rooms[k].players) >= 2

\* What a step does to a room in round_over, left telling whether one of its
\* players disconnects in the step: a disconnect cancels the restart and
\* leaves the room waiting (or deleted); without one the room stays in
\* round_over with its timer, or the timer fires and the room is in countdown
\* with its players.
roundOverStep(k, left) ==
    inRoundOver(k) =>
        IF left
        THEN /\ \A t \in timers' : t.roomId # k
             /\ k \in DOMAIN rooms' => rooms'[k].state = "waiting"
        ELSE /\ k \in DOMAIN rooms'
             /\ playerIds(rooms'[k]) = playerIds(rooms[k])
             /\ \/ /\ rooms'[k].state = "round_over"
                   /\ restartTimers(k) \subseteq timers'
                \/ /\ rooms'[k].state = "countdown"
                   /\ restartTimers(k) \cap timers' = {}
                   /\ \E t \in timers' : /\ t.roomId = k
                                         /\ t.kind = "countdown"
                                         /\ t.id = rooms'[k].countdownTimeout

\* The connection of a player of room k closes.
playerDisconnected(s, k) ==
    /\ s \notin closed
    /\ s \in closed'
    /\ roomExists(k)
    /\ s \in playerIds(rooms[k])

\* The statement restricted to the disconnects of connections whose last
\* join was for the room: a restart timer is pending exactly while a room is
\* in round_over, a room in round_over goes to countdown by that timer
\* alone, and does so eventually unless such a connection closes, which
\* cancels the timer and leaves the room waiting or deleted.
autoRestartOfLastRoom ==
    /\ []restartPendingIffRoundOver
    /\ [][\A k \in AutoRoomIds :
            roundOverStep(k, \E s \in Sockets : disconnected(s, k))]_vars
    /\ \A k \in AutoRoomIds : inRoundOver(k) ~> ~inRoundOver(k)

\* C31: in the server with automatic restart a restart timer is pending
\* exactly while a room is in round_over; a room in round_over none of whose
\* players disconnects goes to countdown when that timer fires, and does so
\* eventually, no request being involved; when a player of a room in
\* round_over disconnects, the timer is cancelled and the room is left
\* waiting or deleted; no room is in countdown, playing or round_over with
\* fewer than two players.
C31_AutoRestart ==
    /\ []restartPendingIffRoundOver
    /\ [][\A k \in AutoRoomIds :
            roundOverStep(k, \E s \in Sockets : playerDisconnected(s, k))]_vars
    /\ \A k \in AutoRoomIds : inRoundOver(k) ~> ~inRoundOver(k)

=========================================================================
